---- MODULE Spec2Model ----
(***************************************************************************)
(* The streaming chat orchestrator of picoclaw's web UI server:            *)
(*   - the two stream adapters (ProviderWrapper.StreamChat, which wraps a  *)
(*     whole-response Chat call, and the native ollama Provider.StreamChat)*)
(*   - the provider registry (providerMap) and its startup                 *)
(*   - the two transport handlers (handleChat over server-sent events and  *)
(*     handleWebSocket over one socket connection)                         *)
(*   - the session store the handlers call (package session is not part of *)
(*     the sources at hand; it is modelled from its specification).        *)
(* Every handler runs in a goroutine of its own, every adapter stream has  *)
(* a producer goroutine of its own; an action is one atomic step of one of *)
(* them.                                                                   *)
(***************************************************************************)
EXTENDS Naturals, Sequences, FiniteSets, TLC

VARIABLES
    phase,        \* main: "init" before startup, then "serving" or "fatal"
    providerMap,  \* the registry: the set of registered provider names
    mem,          \* session store, in memory: key -> sequence of messages
    disk,         \* session store, durable: key -> sequence of messages
    nturns,       \* number of requests read so far (also the clock of key generation)
    conn,         \* the socket connection of handleWebSocket: "closed" or "open"
    pc,           \* per handler: position in the handler's code
    req,          \* per handler: the ChatRequest being served
    history,      \* per handler: the local working list `history`
    idx,          \* per handler: position of the range loop over req.Messages
    fullResponse, \* per handler: the local accumulator `fullResponse`
    frames,       \* per handler: the frames written to the client in this turn
                  \* (a write whose result the code ignores counts as written)
    resp,         \* per handler: the plain HTTP error response (http.Error), if any
    outcome,      \* per handler: how the last turn ended
    tid,          \* per handler: the number of the turn being served
    saves,        \* per handler: number of sessions.Save calls of this turn
    streams,      \* turn number -> the adapter stream StreamChat returned for it
    nunits,       \* number of content units the upstreams have produced so far
    nfaults,      \* number of faults and blank answers of the environment so far
    peer,         \* per handler: whether the client of the turn is still connected
    api,          \* the last response of the session endpoints (/api/sessions...)
    purged,       \* session key -> number of the last request that deleted it
    updated,      \* last-updated time of every session: in memory (.mem), durable (.disk)
    probe,        \* what ListModels returned to initializeProviders at the last startup
    client        \* the web client (PicoClawApp) of the page: its fields and its position

vars == <<phase, providerMap, mem, disk, nturns, conn, pc, req, history, idx,
          fullResponse, frames, resp, outcome, tid, saves, streams, nunits, nfaults,
          peer, api, purged, updated, probe, client>>

-----------------------------------------------------------------------------
(* Bounds of the model *)

MaxTurns == 2      \* requests read over a run
MaxReqMsgs == 1    \* messages carried by one request
MaxUnits == 2      \* content units the native upstream bodies carry over a run
MaxFaults == 1     \* faults and blank answers of the environment over a run
MaxOptions == 1    \* fields of one request that differ from the plain request

(* Program constants *)

WrapperChanCap == 1
NativeChanCap == 10
StatusOK == 200
StatusBadRequest == 400
StatusNotFound == 404
StatusMethodNotAllowed == 405
StatusInternalServerError == 500

Handlers == {"http", "ws"}
Nil == ""                       \* a nil error / an absent string
DefaultOllamaModel == "llama3.2"

(* Inputs *)

ClientKeys == {"", "s1"}               \* req.SessionKey ("" : server generates one)
ClientProviders == {"", "gpt-nope"}    \* req.Provider ("" : registry default)
ClientModels == {"", "phi3"}           \* req.Model ("" : provider default)
ClientPrompts == {"", "be brief"}      \* req.SystemPrompt
ClientContents == {"hi"}
UpContents == {"", "par"}              \* message.content of a native upstream unit
RespContents == {"", "hello"}          \* message.content of a whole response
ProbeResults == {<<>>, <<"llama3.2">>} \* model listing at startup (<<>>: failed or empty)
ApiMethods == {"GET", "DELETE", "POST"} \* r.Method of a session endpoint request
ApiPaths == {"", "s1"}                 \* the session key in the path of /api/sessions/
StoredKeys == {"s0", "s1"}             \* session files that may fail to be read

Message(role, content, turn) == [role |-> role, content |-> content, turn |-> turn]

RECURSIVE SeqsUpTo(_, _)
SeqsUpTo(S, n) ==
    IF n = 0 THEN {<<>>}
    ELSE LET shorter == SeqsUpTo(S, n - 1)
         IN  shorter \cup {Append(s, x) : s \in {t \in shorter : Len(t) = n - 1}, x \in S}

ClientMessages == {[role |-> "user", content |-> c] : c \in ClientContents}

(* The plain request names session "s1", no provider, no model, no system   *)
(* prompt, and carries one message.                                          *)
Options(r) ==
    (IF r.sessionKey # "s1" THEN 1 ELSE 0) + (IF r.provider # "" THEN 1 ELSE 0)
    + (IF r.model # "" THEN 1 ELSE 0) + (IF r.systemPrompt # "" THEN 1 ELSE 0)
    + (IF Len(r.messages) # 1 THEN 1 ELSE 0)

ChatRequests ==
    {r \in [sessionKey : ClientKeys, provider : ClientProviders, model : ClientModels,
            systemPrompt : ClientPrompts, messages : SeqsUpTo(ClientMessages, MaxReqMsgs)] :
        Options(r) <= MaxOptions}

NoReq == [sessionKey |-> "", provider |-> "", model |-> "", systemPrompt |-> "",
          messages |-> <<>>]
NoResp == [status |-> 0, body |-> ""]
NoApi == [op |-> "none", n |-> 0, key |-> "", status |-> 0, text |-> "",
          success |-> FALSE, messages |-> <<>>, sessions |-> <<>>,
          dirOk |-> TRUE, bad |-> {}, models |-> {}]

Put(f, k, v) == [x \in (DOMAIN f) \cup {k} |-> IF x = k THEN v ELSE f[x]]

(* The clock, as the handlers and the session store read it (time.Now()):   *)
(* it advances with every request read.                                     *)
Now == nturns

-----------------------------------------------------------------------------
(* Session store (package session) *)

GetHistory(m, key) == IF key \in DOMAIN m THEN m[key] ELSE <<>>

AddMessage(m, key, msg) == Put(m, key, Append(GetHistory(m, key), msg))

Save(m, d, key, ok) == IF ok /\ key \in DOMAIN m THEN Put(d, key, m[key]) ELSE d

(* Delete(key): the state, in memory or durable, without the session, and   *)
(* whether there was anything to remove                                     *)
Remove(f, key) == [x \in (DOMAIN f) \ {key} |-> f[x]]

Delete(m, d, key) ==
    [mem |-> Remove(m, key), disk |-> Remove(d, key),
     deleted |-> key \in DOMAIN m \/ key \in DOMAIN d]

(* The last-updated time of every session, u.mem in memory and u.disk       *)
(* durable: AddMessage sets it to the clock reading, Save writes it with    *)
(* the session, Delete removes it, a start of the process loads it.         *)
Touch(u, key, now) == [u EXCEPT !.mem = Put(@, key, now)]

Saved(u, m, key, ok) ==
    IF ok /\ key \in DOMAIN m THEN [u EXCEPT !.disk = Put(@, key, u.mem[key])] ELSE u

Removed(u, key) == [mem |-> Remove(u.mem, key), disk |-> Remove(u.disk, key)]

Reloaded(u) == [u EXCEPT !.mem = u.disk]

(* NewSessionManager(storage): the sessions in memory after a start of the  *)
(* process are the durable ones                                             *)
NewSessionManager(d) == d

-----------------------------------------------------------------------------
(* Provider registry *)

Priority == <<"ollama">>

RECURSIVE FirstRegistered(_, _)
FirstRegistered(pm, names) ==
    IF names = <<>> THEN Nil
    ELSE IF Head(names) \in pm THEN Head(names)
    ELSE FirstRegistered(pm, Tail(names))

(* mutant: whichever entry the iteration over the map meets first *)
getDefaultProvider_AnyRegistered(pm) == IF pm = {} THEN Nil ELSE CHOOSE name \in pm : TRUE

getDefaultProvider(pm) == FirstRegistered(pm, Priority)

getProvider(pm, name) == IF name \in pm THEN name ELSE Nil

(* the names in the registry (a slice in map iteration order: a set) *)
getAvailableProviders(pm) == pm

(* mutant: the provider is registered whatever the probe returned *)
initializeProviders_RegistersUnprobed(models) == {"ollama"}

(* models: what ListModels returned within the probe's two seconds, <<>>    *)
(* when it failed, timed out or listed nothing                              *)
initializeProviders(models) == IF Len(models) > 0 THEN {"ollama"} ELSE {}

(* mutant: main goes on to serve when no provider is available *)
Main_ServesAnyway(models) ==
    /\ phase = "init"
    /\ providerMap' = initializeProviders(models)
    /\ phase' = "serving"
    /\ probe' = models
    /\ UNCHANGED client
    /\ UNCHANGED <<mem, disk, nturns, conn, pc, req, history, idx, fullResponse,
                   frames, resp, outcome, tid, saves, streams, nunits, nfaults,
                   peer, api, purged, updated>>

(* main, from initializeProviders to the routes being served: log.Fatal     *)
(* ends the process when there is no default provider                       *)
Main(models) ==
    /\ phase = "init"
    /\ providerMap' = initializeProviders(models)
    /\ phase' = IF getDefaultProvider(providerMap') = Nil THEN "fatal" ELSE "serving"
    /\ UNCHANGED <<mem, disk, nturns, conn, pc, req, history, idx, fullResponse,
                   frames, resp, outcome, tid, saves, streams, nunits, nfaults>>
    /\ probe' = models
    /\ UNCHANGED client
    /\ UNCHANGED <<peer, api, purged, updated>>

-----------------------------------------------------------------------------
(* Upstream behaviour: what the HTTP call to the inference server yields.   *)
(* err: the transport error (Nil when the call got a response); status: the *)
(* response status; valid: whether the body decodes; content: the decoded   *)
(* message.content, or the body text of a non-success response.             *)

Upstream(err, status, valid, content) ==
    [err |-> err, status |-> status, valid |-> valid, content |-> content]

(* the error of http.Client.Do names the request: Post "<url>": <cause> *)
UpErrors ==
    {Upstream("Post \"http://localhost:11434/api/chat\": connection refused", 0, FALSE, "")}
UpRefusals == {Upstream(Nil, StatusInternalServerError, TRUE, "oops")}
UpChats ==
    UpErrors \cup UpRefusals \cup {Upstream(Nil, StatusOK, FALSE, "")}
    \cup {Upstream(Nil, StatusOK, TRUE, c) : c \in RespContents}
UpCalls == UpErrors \cup UpRefusals \cup {Upstream(Nil, StatusOK, TRUE, "")}
(* the call is aborted because its context was cancelled *)
UpAborts == {Upstream("context canceled", 0, FALSE, "")}

(* One unit of a native upstream body, as decoder.Decode meets it *)
Unit(kind, content) == [kind |-> kind, content |-> content]
UpUnits ==
    {Unit("content", c) : c \in UpContents}
    \cup {Unit("done", ""), Unit("eof", ""), Unit("malformed", "")}
(* the read of the body is aborted because the context was cancelled *)
UpAbortUnits == {Unit("aborted", "")}

Failed(up) == up.err # Nil \/ up.status # StatusOK \/ ~up.valid

(* An upstream answer that is well-formed but carries no text *)
Blank(content) == content = ""

(* The environment fails, or answers blank, at most MaxFaults times over a run *)
Fault(failed) ==
    /\ failed => nfaults < MaxFaults
    /\ nfaults' = IF failed THEN nfaults + 1 ELSE nfaults

Untag(msgs) == [i \in 1..Len(msgs) |-> [role |-> msgs[i].role, content |-> msgs[i].content]]

-----------------------------------------------------------------------------
(* Stream adapters *)

Chunk(content, done, error) == [Content |-> content, Done |-> done, Error |-> error]

AdapterKinds == {"wrapper", "native"}

(* mutant: the wrapper's channel has no buffer, its send waits for a receiver *)
ChanCap_WrapperUnbuffered(kind) == IF kind = "wrapper" THEN 0 ELSE NativeChanCap

(* make(chan StreamChunk, 1) / make(chan providers.StreamChunk, 10) *)
ChanCap(kind) == IF kind = "wrapper" THEN WrapperChanCap ELSE NativeChanCap

(* The channel StreamChat returns, with its producer goroutine started.     *)
(* log is the history of every chunk sent on the channel, answer the        *)
(* upstream's answer to the adapter's HTTP call once it has returned, held  *)
(* the chunk the producer is blocked sending while the channel is full.     *)
NoAnswer == Upstream(Nil, 0, FALSE, "")

NewStream(kind, messages, model, ctx, answer) ==
    [kind |-> kind, messages |-> messages, model |-> model, ctx |-> ctx,
     cancelled |-> FALSE, chan |-> <<>>, closed |-> FALSE, prod |-> "run",
     log |-> <<>>, answer |-> answer, held |-> <<>>]

(* A channel whose producer has exited and which no handler ranges over any *)
(* more is garbage: it leaves the state.                                    *)
Drop(ss, t) == [x \in (DOMAIN ss) \ {t} |-> ss[x]]

Referenced(t) == \E h \in Handlers : tid[h] = t

Collect(ss, t) ==
    IF t \in DOMAIN ss /\ ss[t].prod = "exit" /\ ~Referenced(t) THEN Drop(ss, t) ELSE ss

(* OllamaProvider.Chat: the whole-response call. Its result is the pair     *)
(* (resp.Content, err).                                                     *)
ChatModel(model) == IF model = "" THEN DefaultOllamaModel ELSE model

OllamaChat(messages, model, up) ==
    IF Len(messages) = 0 THEN [content |-> "", err |-> "no messages provided"]
    ELSE IF up.err # Nil
        THEN [content |-> "", err |-> "failed to send request: " \o up.err]
    ELSE IF up.status # StatusOK
        THEN [content |-> "",
              err |-> "ollama returned status " \o ToString(up.status) \o ": " \o up.content]
    ELSE IF ~up.valid
        THEN [content |-> "", err |-> "failed to decode response: unexpected EOF"]
    ELSE [content |-> up.content, err |-> Nil]

(* mutant: the whole response is sent as a content chunk without Done *)
WrapperChunk_NoDone(r) ==
    IF r.err # Nil THEN Chunk("", FALSE, r.err) ELSE Chunk(r.content, FALSE, Nil)

(* ProviderWrapper.StreamChat: the chunk its goroutine sends *)
WrapperChunk(r) ==
    IF r.err # Nil THEN Chunk("", FALSE, r.err) ELSE Chunk(r.content, TRUE, Nil)

(* ProviderWrapper.StreamChat's goroutine: one Chat call, one chunk, close *)
WrapperProduce(t, up) ==
    /\ t \in DOMAIN streams
    /\ streams[t].kind = "wrapper"
    /\ streams[t].prod = "run"
    /\ Len(streams[t].chan) < ChanCap("wrapper")
    /\ up \in UpAborts => streams[t].cancelled
    /\ Fault(up \notin UpAborts /\ (Failed(up) \/ Blank(up.content)))
    /\ LET s == streams[t]
           c == WrapperChunk(OllamaChat(s.messages, s.model, up))
       IN  streams' = Collect([streams EXCEPT ![t] =
               [s EXCEPT !.chan = Append(s.chan, c), !.log = Append(s.log, c),
                         !.closed = TRUE, !.prod = "exit", !.answer = up]], t)
    /\ UNCHANGED <<phase, providerMap, mem, disk, nturns, conn, pc, req, history,
                   idx, fullResponse, frames, resp, outcome, tid, saves, nunits>>
    /\ UNCHANGED <<peer, api, purged, updated, probe, client>>

(* ollama Provider.StreamChat, the synchronous part: the error it returns   *)
(* instead of a channel (Nil when it returns the channel).                  *)
NativeCallError(messages, up) ==
    IF Len(messages) = 0 THEN "no messages provided"
    ELSE IF up.err # Nil THEN "failed to send request: " \o up.err
    ELSE IF up.status # StatusOK
        THEN "ollama returned status " \o ToString(up.status) \o ": " \o up.content
    ELSE Nil

(* ollama Provider.StreamChat's goroutine, one iteration of its loop: what  *)
(* it sends for the unit decoded (<<>> : nothing), and whether it returns.  *)
NativeSends(u) ==
    IF u.kind = "eof" THEN <<>>
    ELSE IF u.kind = "malformed"
        THEN <<Chunk("", FALSE, "decode error: invalid character")>>
    ELSE IF u.kind = "aborted"
        THEN <<Chunk("", FALSE, "decode error: context canceled")>>
    ELSE IF u.kind = "done" THEN <<Chunk("", TRUE, Nil)>>
    ELSE <<Chunk(u.content, FALSE, Nil)>>

(* mutant: the goroutine goes on decoding after the unit marked done *)
NativeReturns_NoReturnOnDone(u) == u.kind \in {"eof", "malformed", "aborted"}

NativeReturns(u) == u.kind \in {"eof", "malformed", "aborted", "done"}

NativeProduce(t, u) ==
    /\ t \in DOMAIN streams
    /\ streams[t].kind = "native"
    /\ streams[t].prod = "run"
    /\ streams[t].held = <<>>
    /\ u \in UpAbortUnits => streams[t].cancelled
    /\ u.kind = "content" => (nunits < MaxUnits \/ ~Referenced(t))
    /\ nunits' = IF u.kind = "content" /\ Referenced(t) THEN nunits + 1 ELSE nunits
    /\ Fault(u.kind \in {"eof", "malformed"} \/ (u.kind = "content" /\ Blank(u.content)))
    /\ LET s == streams[t]
           out == NativeSends(u)
       IN  IF Len(s.chan) + Len(out) <= ChanCap("native")
           THEN streams' = Collect([streams EXCEPT ![t] =
                    [s EXCEPT !.chan = s.chan \o out, !.log = s.log \o out,
                              !.closed = NativeReturns(u),
                              !.prod = IF NativeReturns(u) THEN "exit" ELSE "run"]], t)
           ELSE \* the channel is full: the goroutine blocks in its send
                streams' = [streams EXCEPT ![t].held = out]
    /\ UNCHANGED <<phase, providerMap, mem, disk, nturns, conn, pc, req, history,
                   idx, fullResponse, frames, resp, outcome, tid, saves>>
    /\ UNCHANGED <<peer, api, purged, updated, probe, client>>

-----------------------------------------------------------------------------
(* What both transport handlers compute *)

(* A frame as the client reads it: the fields of the ChatResponse, and      *)
(* whether the data written for it is not a JSON document at all            *)
Frame(content, done, error) ==
    [content |-> content, done |-> done, error |-> error, malformed |-> FALSE]

Quote == "\""
Backslash == "\\"
Newline == "\n"

Char(text, i) == SubSeq(text, i, i)

(* the concatenation of the texts pieces[lo], ..., pieces[hi] *)
RECURSIVE Join(_, _, _)
Join(pieces, lo, hi) ==
    IF lo > hi THEN ""
    ELSE IF lo = hi THEN pieces[lo]
    ELSE LET mid == (lo + hi) \div 2
         IN  Join(pieces, lo, mid) \o Join(pieces, mid + 1, hi)

(* encoding/json: the body of the string literal written for a text *)
JsonEscape(text) ==
    Join([i \in 1..Len(text) |->
             LET c == Char(text, i)
             IN  IF c = Quote THEN Backslash \o Quote
                 ELSE IF c = Backslash THEN Backslash \o Backslash
                 ELSE IF c = Newline THEN Backslash \o "n"
                 ELSE c],
         1, Len(text))

(* the client's JSON.parse of a string literal with the body lit: the text  *)
(* read, or that the document is not JSON (a bare quote or line break, a    *)
(* backslash that starts no escape). A character is escaped when an odd     *)
(* number of backslashes runs up to it.                                     *)
NotJson == [ok |-> FALSE, text |-> ""]

Escaped(lit, i) ==
    /\ i > 1
    /\ Char(lit, i - 1) = Backslash
    /\ Cardinality({k \in 1..(i - 1) : \A j \in k..(i - 1) : Char(lit, j) = Backslash}) % 2 = 1

ReadJsonString(lit) ==
    LET n == Len(lit)
        ok == \A i \in 1..n :
                 LET c == Char(lit, i)
                 IN  /\ c # Newline
                     /\ c = Quote => Escaped(lit, i)
                     /\ Escaped(lit, i) => c \in {Quote, Backslash, "n"}
                     /\ (i = n /\ c = Backslash) => Escaped(lit, i)
        pieces == [i \in 1..n |->
                     LET c == Char(lit, i)
                     IN  IF Escaped(lit, i) THEN (IF c = "n" THEN Newline ELSE c)
                         ELSE IF c = Backslash THEN "" ELSE c]
    IN  IF ok THEN [ok |-> TRUE, text |-> Join(pieces, 1, n)] ELSE NotJson

(* a ChatResponse written with json.Marshal or conn.WriteJSON, as read back *)
JsonFrame(content, done, error) ==
    Frame(ReadJsonString(JsonEscape(content)).text, done,
          ReadJsonString(JsonEscape(error)).text)

(* strconv.FormatInt(n, base) for n >= 0 *)
Digits ==
    <<"0", "1", "2", "3", "4", "5", "6", "7", "8", "9", "a", "b", "c", "d", "e", "f",
      "g", "h", "i", "j", "k", "l", "m", "n", "o", "p", "q", "r", "s", "t", "u", "v",
      "w", "x", "y", "z">>

RECURSIVE FormatInt(_, _)
FormatInt(n, base) ==
    IF n < base THEN Digits[n + 1]
    ELSE FormatInt(n \div base, base) \o Digits[(n % base) + 1]

(* the session key generated from the clock reading now *)
GenKey(now) == "webui:" \o FormatInt(now, Len(Digits))

(* http.Error(w, msg, code): the status, and the text followed by a newline *)
HttpError(msg, code) == [status |-> code, body |-> msg \o "\n"]

(* mutant: the provider name is left out of the message *)
NotAvailable_NoName(name) == "Provider not available"

NotAvailable(name) == "Provider '" \o name \o "' not available"

(* chunk := <-chunkChan: the chunk received, and the stream after the        *)
(* receive; a producer blocked in its send completes the send with it, and  *)
(* returns, closing the channel, when what it sent was its terminal chunk   *)
ChanHead_Newest(ch) == ch[Len(ch)]

ChanHead(ch) == Head(ch)

Received(s) ==
    LET sent == s.held # <<>>
        last == sent /\ (s.held[1].Done \/ s.held[1].Error # Nil)
    IN  [s EXCEPT !.chan = Tail(@) \o s.held, !.log = @ \o s.held, !.held = <<>>,
                  !.closed = @ \/ last, !.prod = IF last THEN "exit" ELSE @]

(* ctx is cancelled: the upstream call of the stream is aborted *)
Cancel(ss, t) ==
    IF t \in DOMAIN ss THEN [ss EXCEPT ![t].cancelled = TRUE] ELSE ss

(* the handler's locals go out of scope; a channel it held whose producer   *)
(* has exited is garbage                                                    *)
Release(ss, t) ==
    IF t \in DOMAIN ss /\ ss[t].prod = "exit" THEN Drop(ss, t) ELSE ss

Forget(h) ==
    /\ pc' = [pc EXCEPT ![h] = "idle"]
    /\ req' = [req EXCEPT ![h] = NoReq]
    /\ history' = [history EXCEPT ![h] = <<>>]
    /\ idx' = [idx EXCEPT ![h] = 0]
    /\ fullResponse' = [fullResponse EXCEPT ![h] = ""]
    /\ frames' = [frames EXCEPT ![h] = <<>>]
    /\ resp' = [resp EXCEPT ![h] = NoResp]
    /\ outcome' = [outcome EXCEPT ![h] = "none"]
    /\ tid' = [tid EXCEPT ![h] = 0]
    /\ saves' = [saves EXCEPT ![h] = 0]

(* StreamChat of the adapter the registry entry is bound to: the stream it  *)
(* returns, or the error, and the model named in its upstream request: the  *)
(* native adapter writes its configured model, the wrapper hands the        *)
(* model of the turn to OllamaProvider.Chat.                                *)
StreamChatError(kind, messages, up) ==
    IF kind = "native" THEN NativeCallError(messages, up) ELSE Nil

StreamChatModel(kind, model) ==
    IF kind = "native" THEN DefaultOllamaModel ELSE ChatModel(model)

-----------------------------------------------------------------------------
(* handleChat: one POST /api/chat request, answered as an event stream *)

(* from the entry of the handler to sessions.GetHistory *)
ChatReceive(method, bodyOk, r) ==
    /\ phase = "serving"
    /\ pc["http"] = "idle"
    /\ nturns < MaxTurns
    /\ nturns' = nturns + 1
    /\ tid' = [tid EXCEPT !["http"] = nturns + 1]
    /\ frames' = [frames EXCEPT !["http"] = <<>>]
    /\ fullResponse' = [fullResponse EXCEPT !["http"] = ""]
    /\ saves' = [saves EXCEPT !["http"] = 0]
    /\ IF method # "POST" THEN
            /\ resp' = [resp EXCEPT !["http"] =
                          HttpError("Method not allowed", StatusMethodNotAllowed)]
            /\ outcome' = [outcome EXCEPT !["http"] = "rejected"]
            /\ req' = [req EXCEPT !["http"] = NoReq]
            /\ history' = [history EXCEPT !["http"] = <<>>]
            /\ idx' = [idx EXCEPT !["http"] = 0]
            /\ pc' = [pc EXCEPT !["http"] = "done"]
       ELSE IF ~bodyOk THEN
            /\ resp' = [resp EXCEPT !["http"] =
                          HttpError("Invalid request", StatusBadRequest)]
            /\ outcome' = [outcome EXCEPT !["http"] = "rejected"]
            /\ req' = [req EXCEPT !["http"] = NoReq]
            /\ history' = [history EXCEPT !["http"] = <<>>]
            /\ idx' = [idx EXCEPT !["http"] = 0]
            /\ pc' = [pc EXCEPT !["http"] = "done"]
       ELSE LET sessionKey == IF r.sessionKey = "" THEN GenKey(nturns + 1) ELSE r.sessionKey
                providerName == IF r.provider = "" THEN getDefaultProvider(providerMap)
                                ELSE r.provider
                provider == getProvider(providerMap, providerName)
            IN  /\ req' = [req EXCEPT !["http"] =
                             [r EXCEPT !.sessionKey = sessionKey, !.provider = providerName]]
                /\ IF provider = Nil THEN
                        /\ resp' = [resp EXCEPT !["http"] =
                              HttpError(NotAvailable(providerName), StatusBadRequest)]
                        /\ outcome' = [outcome EXCEPT !["http"] = "noprovider"]
                        /\ history' = [history EXCEPT !["http"] = <<>>]
                        /\ idx' = [idx EXCEPT !["http"] = 0]
                        /\ pc' = [pc EXCEPT !["http"] = "done"]
                   ELSE /\ resp' = [resp EXCEPT !["http"] = NoResp]
                        /\ outcome' = [outcome EXCEPT !["http"] = "running"]
                        /\ history' = [history EXCEPT !["http"] = GetHistory(mem, sessionKey)]
                        /\ idx' = [idx EXCEPT !["http"] = 1]
                        /\ pc' = [pc EXCEPT !["http"] = "add"]
    /\ UNCHANGED streams
    /\ UNCHANGED <<phase, providerMap, mem, disk, conn, nunits, nfaults>>
    /\ UNCHANGED <<peer, api, purged, updated, probe, client>>

(* one iteration of the loop over req.Messages *)
ChatAddMessage ==
    /\ pc["http"] = "add"
    /\ idx["http"] <= Len(req["http"].messages)
    /\ LET msg == req["http"].messages[idx["http"]]
           m == Message(msg.role, msg.content, tid["http"])
       IN  /\ history' = [history EXCEPT !["http"] = Append(@, m)]
           /\ mem' = AddMessage(mem, req["http"].sessionKey, m)
    /\ idx' = [idx EXCEPT !["http"] = @ + 1]
    /\ UNCHANGED <<phase, providerMap, disk, nturns, conn, pc, req, fullResponse,
                   frames, resp, outcome, tid, saves, streams, nunits, nfaults>>
    /\ updated' = Touch(updated, req["http"].sessionKey, Now)
    /\ UNCHANGED <<peer, api, purged, probe, client>>

(* mutant: the system prompt is put after the history *)
ChatPrompt_PromptLast(sys, hist) ==
    IF sys # "" THEN hist \o <<Message("system", sys, 0)>> ELSE hist

(* the working list sent upstream: the system prompt first, when supplied *)
ChatPrompt(sys, hist) ==
    IF sys # "" THEN <<Message("system", sys, 0)>> \o hist ELSE hist

(* fmt.Fprintf(w, "data: {\"error\": \"%s\"}\n\n", msg): the message is put *)
(* between the quotes as it is                                              *)
ChatErrorFrame(msg) ==
    LET r == ReadJsonString(msg)
    IN  IF r.ok THEN Frame("", FALSE, r.text)
        ELSE [Frame("", FALSE, msg) EXCEPT !.malformed = TRUE]

(* from the end of the loop to the return of provider.StreamChat *)
ChatStartStream(flusherOk, kind, up) ==
    /\ pc["http"] = "add"
    /\ idx["http"] > Len(req["http"].messages)
    /\ LET hist == ChatPrompt(req["http"].systemPrompt, history["http"])
           model == IF req["http"].model = "" THEN DefaultOllamaModel ELSE req["http"].model
           err == StreamChatError(kind, hist, up)
       IN  /\ Fault(~flusherOk \/ (kind = "native" /\ Failed(up)))
           /\ history' = [history EXCEPT !["http"] = hist]
           /\ IF ~flusherOk THEN
                   /\ resp' = [resp EXCEPT !["http"] =
                                 HttpError("Streaming not supported", StatusInternalServerError)]
                   /\ outcome' = [outcome EXCEPT !["http"] = "noflusher"]
                   /\ pc' = [pc EXCEPT !["http"] = "done"]
                   /\ UNCHANGED <<frames, streams>>
              ELSE IF err # Nil THEN
                   /\ frames' = [frames EXCEPT !["http"] = Append(@, ChatErrorFrame(err))]
                   /\ outcome' = [outcome EXCEPT !["http"] = "callerror"]
                   /\ pc' = [pc EXCEPT !["http"] = "done"]
                   /\ UNCHANGED <<resp, streams>>
              ELSE /\ streams' = Put(streams, tid["http"],
                          NewStream(kind, Untag(hist), StreamChatModel(kind, model), "request",
                                    IF kind = "native" THEN up ELSE NoAnswer))
                   /\ pc' = [pc EXCEPT !["http"] = "stream"]
                   /\ UNCHANGED <<frames, resp, outcome>>
    /\ UNCHANGED <<phase, providerMap, mem, disk, nturns, conn, req, idx,
                   fullResponse, tid, saves, nunits>>
    /\ UNCHANGED <<peer, api, purged, updated, probe, client>>

(* what one iteration of the chunk loop writes, and where it goes next *)
ChatFrameOf(chunk) ==
    IF chunk.Error # Nil THEN ChatErrorFrame(chunk.Error)
    ELSE JsonFrame(chunk.Content, chunk.Done, Nil)

(* mutant: the content of the chunk that carries Done is not accumulated *)
ChatAccumulate_DropsLast(full, chunk) ==
    IF chunk.Error # Nil \/ chunk.Done THEN full ELSE full \o chunk.Content

ChatAccumulate(full, chunk) == IF chunk.Error # Nil THEN full ELSE full \o chunk.Content

(* mutant: partial text is committed when the stream ends with an error *)
ChatAfterChunk_SavesPartial(chunk, full) ==
    IF chunk.Error # Nil THEN (IF full # "" THEN "append" ELSE "error")
    ELSE IF chunk.Done THEN (IF full # "" THEN "append" ELSE "completed")
    ELSE "stream"

ChatAfterChunk(chunk, full) ==
    IF chunk.Error # Nil THEN "error"
    ELSE IF chunk.Done THEN (IF full # "" THEN "append" ELSE "completed")
    ELSE "stream"

(* one iteration of the loop over chunkChan, up to sessions.AddMessage *)
ChatRecv ==
    /\ pc["http"] = "stream"
    /\ streams[tid["http"]].chan # <<>>
    /\ LET t == tid["http"]
           chunk == ChanHead(streams[t].chan)
           full == ChatAccumulate(fullResponse["http"], chunk)
           next == ChatAfterChunk(chunk, full)
           received == [streams EXCEPT ![t] = Received(@)]
       IN  /\ frames' = [frames EXCEPT !["http"] = Append(@, ChatFrameOf(chunk))]
           /\ fullResponse' = [fullResponse EXCEPT !["http"] = full]
           /\ IF next \in {"error", "completed"} THEN
                   /\ outcome' = [outcome EXCEPT !["http"] = next]
                   /\ pc' = [pc EXCEPT !["http"] = "done"]
                   /\ streams' = received
              ELSE /\ pc' = [pc EXCEPT !["http"] = next]
                   /\ streams' = received
                   /\ UNCHANGED outcome
    /\ UNCHANGED <<phase, providerMap, mem, disk, nturns, conn, req, history, idx,
                   resp, tid, saves, nunits, nfaults>>
    /\ UNCHANGED <<peer, api, purged, updated, probe, client>>

(* the range loop ends: the channel is closed and drained *)
ChatLoopExit ==
    /\ pc["http"] = "stream"
    /\ streams[tid["http"]].chan = <<>>
    /\ streams[tid["http"]].closed
    /\ outcome' = [outcome EXCEPT !["http"] = "closed"]
    /\ pc' = [pc EXCEPT !["http"] = "done"]
    /\ UNCHANGED <<phase, providerMap, mem, disk, nturns, conn, req, history, idx,
                   fullResponse, frames, resp, tid, saves, streams, nunits, nfaults>>
    /\ UNCHANGED <<peer, api, purged, updated, probe, client>>

(* mutant: the assistant message replaces the history of the session *)
ChatAppend_Replaces ==
    /\ pc["http"] = "append"
    /\ mem' = Put(mem, req["http"].sessionKey,
                  <<Message("assistant", fullResponse["http"], tid["http"])>>)
    /\ pc' = [pc EXCEPT !["http"] = "save"]
    /\ UNCHANGED <<phase, providerMap, disk, nturns, conn, req, history, idx,
                   fullResponse, frames, resp, outcome, tid, saves, streams, nunits, nfaults>>
    /\ updated' = Touch(updated, req["http"].sessionKey, Now)
    /\ UNCHANGED <<peer, api, purged, probe, client>>

(* sessions.AddMessage(sessionKey, "assistant", fullResponse) *)
ChatAppend ==
    /\ pc["http"] = "append"
    /\ mem' = AddMessage(mem, req["http"].sessionKey,
                         Message("assistant", fullResponse["http"], tid["http"]))
    /\ pc' = [pc EXCEPT !["http"] = "save"]
    /\ UNCHANGED <<phase, providerMap, disk, nturns, conn, req, history, idx,
                   fullResponse, frames, resp, outcome, tid, saves, streams, nunits, nfaults>>
    /\ updated' = Touch(updated, req["http"].sessionKey, Now)
    /\ UNCHANGED <<peer, api, purged, probe, client>>

(* mutant: the session is not written to durable storage *)
ChatSave_NothingWritten(ok) ==
    /\ pc["http"] = "save"
    /\ Fault(~ok)
    /\ saves' = [saves EXCEPT !["http"] = @ + 1]
    /\ outcome' = [outcome EXCEPT !["http"] = "completed"]
    /\ pc' = [pc EXCEPT !["http"] = "done"]
    /\ UNCHANGED <<phase, providerMap, mem, disk, nturns, conn, req, history, idx,
                   fullResponse, frames, resp, tid, streams, nunits, peer, api, purged,
                   updated, probe, client>>

(* mutant: a failed Save is reported to the client as an error frame *)
ChatSave_ReportsFailure(ok) ==
    /\ pc["http"] = "save"
    /\ Fault(~ok)
    /\ disk' = Save(mem, disk, req["http"].sessionKey, ok)
    /\ saves' = [saves EXCEPT !["http"] = @ + 1]
    /\ frames' = [frames EXCEPT !["http"] =
                    IF ok THEN @ ELSE Append(@, ChatErrorFrame("save failed"))]
    /\ outcome' = [outcome EXCEPT !["http"] = IF ok THEN "completed" ELSE "error"]
    /\ pc' = [pc EXCEPT !["http"] = "done"]
    /\ updated' = Saved(updated, mem, req["http"].sessionKey, ok)
    /\ UNCHANGED <<phase, providerMap, mem, nturns, conn, req, history, idx,
                   fullResponse, resp, tid, streams, nunits, peer, api, purged, probe, client>>

(* _ = sessions.Save(sessionKey), then break and return *)
ChatSave(ok) ==
    /\ pc["http"] = "save"
    /\ Fault(~ok)
    /\ disk' = Save(mem, disk, req["http"].sessionKey, ok)
    /\ saves' = [saves EXCEPT !["http"] = @ + 1]
    /\ outcome' = [outcome EXCEPT !["http"] = "completed"]
    /\ pc' = [pc EXCEPT !["http"] = "done"]
    /\ UNCHANGED <<phase, providerMap, mem, nturns, conn, req, history, idx,
                   fullResponse, frames, resp, tid, streams, nunits>>
    /\ updated' = Saved(updated, mem, req["http"].sessionKey, ok)
    /\ UNCHANGED <<peer, api, purged, probe, client>>

(* the client goes away during the stream: the server cancels r.Context(), *)
(* the context handleChat handed to StreamChat                              *)
ChatDisconnect ==
    /\ pc["http"] = "stream"
    /\ peer["http"] = "here"
    /\ Fault(TRUE)
    /\ peer' = [peer EXCEPT !["http"] = "gone"]
    /\ streams' = Cancel(streams, tid["http"])
    /\ UNCHANGED <<phase, providerMap, mem, disk, nturns, conn, pc, req, history, idx,
                   fullResponse, frames, resp, outcome, tid, saves, nunits, api, purged,
                   updated, probe, client>>

(* handleChat returns: the request's context is cancelled *)
ChatReturn ==
    /\ pc["http"] = "done"
    /\ Forget("http")
    /\ peer' = [peer EXCEPT !["http"] = "here"]
    /\ streams' = Release(Cancel(streams, tid["http"]), tid["http"])
    /\ UNCHANGED <<phase, providerMap, mem, disk, nturns, conn, nunits, nfaults>>
    /\ UNCHANGED <<api, purged, updated, probe, client>>

-----------------------------------------------------------------------------
(* handleWebSocket: one socket connection, a loop of turns *)

(* upgrader.Upgrade *)
WsUpgrade(ok) ==
    /\ phase = "serving"
    /\ conn = "closed"
    /\ pc["ws"] = "idle"
    /\ conn' = IF ok THEN "open" ELSE "closed"
    /\ UNCHANGED <<phase, providerMap, mem, disk, nturns, pc, req, history, idx,
                   fullResponse, frames, resp, outcome, tid, saves, streams, nunits, nfaults>>
    /\ UNCHANGED <<peer, api, purged, updated, probe, client>>

(* mutant: the next request is read while the chunk loop is still running *)
WsAtReadJSON_AnyTime == pc["ws"] \in {"idle", "stream"}

(* the handler's goroutine is at conn.ReadJSON, the head of its loop: the   *)
(* turn before, if any, has left its chunk loop                             *)
WsAtReadJSON == pc["ws"] = "idle"

(* conn.ReadJSON fails: the loop breaks, the deferred conn.Close runs *)
WsReadError ==
    /\ conn = "open"
    /\ WsAtReadJSON
    /\ conn' = "closed"
    /\ peer' = [peer EXCEPT !["ws"] = "here"]
    /\ UNCHANGED <<phase, providerMap, mem, disk, nturns, pc, req, history, idx,
                   fullResponse, frames, resp, outcome, tid, saves, streams, nunits, nfaults>>
    /\ UNCHANGED <<api, purged, updated, probe, client>>

(* from conn.ReadJSON to sessions.GetHistory *)
WsReceive(r) ==
    /\ conn = "open"
    /\ peer["ws"] = "here"
    /\ WsAtReadJSON
    /\ nturns < MaxTurns
    /\ nturns' = nturns + 1
    /\ tid' = [tid EXCEPT !["ws"] = nturns + 1]
    /\ fullResponse' = [fullResponse EXCEPT !["ws"] = ""]
    /\ saves' = [saves EXCEPT !["ws"] = 0]
    /\ UNCHANGED streams
    /\ LET sessionKey == IF r.sessionKey = "" THEN GenKey(nturns + 1) ELSE r.sessionKey
           providerName == IF r.provider = "" THEN getDefaultProvider(providerMap)
                           ELSE r.provider
           provider == getProvider(providerMap, providerName)
       IN  /\ req' = [req EXCEPT !["ws"] =
                        [r EXCEPT !.sessionKey = sessionKey, !.provider = providerName]]
           /\ IF provider = Nil THEN
                   /\ frames' = [frames EXCEPT !["ws"] =
                                   <<JsonFrame("", FALSE, NotAvailable(providerName))>>]
                   /\ outcome' = [outcome EXCEPT !["ws"] = "noprovider"]
                   /\ history' = [history EXCEPT !["ws"] = <<>>]
                   /\ idx' = [idx EXCEPT !["ws"] = 0]
                   /\ pc' = [pc EXCEPT !["ws"] = "done"]
              ELSE /\ frames' = [frames EXCEPT !["ws"] = <<>>]
                   /\ outcome' = [outcome EXCEPT !["ws"] = "running"]
                   /\ history' = [history EXCEPT !["ws"] = GetHistory(mem, sessionKey)]
                   /\ idx' = [idx EXCEPT !["ws"] = 1]
                   /\ pc' = [pc EXCEPT !["ws"] = "add"]
    /\ UNCHANGED <<phase, providerMap, mem, disk, conn, resp, nunits, nfaults>>
    /\ UNCHANGED <<peer, api, purged, updated, probe, client>>

(* one iteration of the loop over req.Messages *)
WsAddMessage ==
    /\ pc["ws"] = "add"
    /\ idx["ws"] <= Len(req["ws"].messages)
    /\ LET msg == req["ws"].messages[idx["ws"]]
           m == Message(msg.role, msg.content, tid["ws"])
       IN  /\ history' = [history EXCEPT !["ws"] = Append(@, m)]
           /\ mem' = AddMessage(mem, req["ws"].sessionKey, m)
    /\ idx' = [idx EXCEPT !["ws"] = @ + 1]
    /\ UNCHANGED <<phase, providerMap, disk, nturns, conn, pc, req, fullResponse,
                   frames, resp, outcome, tid, saves, streams, nunits, nfaults>>
    /\ updated' = Touch(updated, req["ws"].sessionKey, Now)
    /\ UNCHANGED <<peer, api, purged, probe, client>>

WsPrompt(sys, hist) ==
    IF sys # "" THEN <<Message("system", sys, 0)>> \o hist ELSE hist

(* from the end of the loop to the return of provider.StreamChat *)
WsStartStream(kind, up) ==
    /\ pc["ws"] = "add"
    /\ idx["ws"] > Len(req["ws"].messages)
    /\ LET hist == WsPrompt(req["ws"].systemPrompt, history["ws"])
           model == IF req["ws"].model = "" THEN DefaultOllamaModel ELSE req["ws"].model
           err == StreamChatError(kind, hist, up)
       IN  /\ Fault(kind = "native" /\ Failed(up))
           /\ history' = [history EXCEPT !["ws"] = hist]
           /\ IF err # Nil THEN
                   /\ frames' = [frames EXCEPT !["ws"] = Append(@, JsonFrame("", FALSE, err))]
                   /\ outcome' = [outcome EXCEPT !["ws"] = "callerror"]
                   /\ pc' = [pc EXCEPT !["ws"] = "done"]
                   /\ UNCHANGED streams
              ELSE /\ streams' = Put(streams, tid["ws"],
                          NewStream(kind, Untag(hist), StreamChatModel(kind, model),
                                    "background", IF kind = "native" THEN up ELSE NoAnswer))
                   /\ pc' = [pc EXCEPT !["ws"] = "stream"]
                   /\ UNCHANGED <<frames, outcome>>
    /\ UNCHANGED <<phase, providerMap, mem, disk, nturns, conn, req, idx,
                   fullResponse, resp, tid, saves, nunits>>
    /\ UNCHANGED <<peer, api, purged, updated, probe, client>>

(* what one iteration of the chunk loop writes, and where it goes next *)
WsFrameOf(chunk) ==
    IF chunk.Error # Nil THEN JsonFrame("", FALSE, chunk.Error)
    ELSE JsonFrame(chunk.Content, chunk.Done, Nil)

WsAccumulate(full, chunk) == full \o chunk.Content

WsAfterChunk(chunk, writeOk, full) ==
    IF chunk.Error # Nil THEN "error"
    ELSE IF ~writeOk THEN "writefail"
    ELSE IF chunk.Done THEN (IF full # "" THEN "append" ELSE "completed")
    ELSE "stream"

(* one iteration of the loop over chunkChan, up to sessions.AddMessage;     *)
(* writeOk: whether conn.WriteJSON of a content or done frame succeeds      *)
WsRecv(writeOk) ==
    /\ pc["ws"] = "stream"
    /\ streams[tid["ws"]].chan # <<>>
    /\ LET t == tid["ws"]
           chunk == ChanHead(streams[t].chan)
           written == chunk.Error # Nil \/ writeOk
           full == IF written /\ chunk.Error = Nil
                   THEN WsAccumulate(fullResponse["ws"], chunk) ELSE fullResponse["ws"]
           next == WsAfterChunk(chunk, writeOk, full)
       IN  /\ Fault(~written /\ peer["ws"] = "here")
           /\ frames' = [frames EXCEPT !["ws"] =
                           IF written THEN Append(@, WsFrameOf(chunk)) ELSE @]
           /\ fullResponse' = [fullResponse EXCEPT !["ws"] = full]
           /\ streams' = [streams EXCEPT ![t] = Received(@)]
           /\ IF next \in {"error", "writefail", "completed"} THEN
                   /\ outcome' = [outcome EXCEPT !["ws"] = next]
                   /\ pc' = [pc EXCEPT !["ws"] = "done"]
              ELSE /\ pc' = [pc EXCEPT !["ws"] = next]
                   /\ UNCHANGED outcome
    /\ UNCHANGED <<phase, providerMap, mem, disk, nturns, conn, req, history, idx,
                   resp, tid, saves, nunits>>
    /\ UNCHANGED <<peer, api, purged, updated, probe, client>>

(* the range loop ends: the channel is closed and drained *)
WsLoopExit ==
    /\ pc["ws"] = "stream"
    /\ streams[tid["ws"]].chan = <<>>
    /\ streams[tid["ws"]].closed
    /\ outcome' = [outcome EXCEPT !["ws"] = "closed"]
    /\ pc' = [pc EXCEPT !["ws"] = "done"]
    /\ UNCHANGED <<phase, providerMap, mem, disk, nturns, conn, req, history, idx,
                   fullResponse, frames, resp, tid, saves, streams, nunits, nfaults>>
    /\ UNCHANGED <<peer, api, purged, updated, probe, client>>

(* sessions.AddMessage(sessionKey, "assistant", fullResponse) *)
WsAppend ==
    /\ pc["ws"] = "append"
    /\ mem' = AddMessage(mem, req["ws"].sessionKey,
                         Message("assistant", fullResponse["ws"], tid["ws"]))
    /\ pc' = [pc EXCEPT !["ws"] = "save"]
    /\ UNCHANGED <<phase, providerMap, disk, nturns, conn, req, history, idx,
                   fullResponse, frames, resp, outcome, tid, saves, streams, nunits, nfaults>>
    /\ updated' = Touch(updated, req["ws"].sessionKey, Now)
    /\ UNCHANGED <<peer, api, purged, probe, client>>

(* _ = sessions.Save(sessionKey), then break and back to conn.ReadJSON *)
WsSave(ok) ==
    /\ pc["ws"] = "save"
    /\ Fault(~ok)
    /\ disk' = Save(mem, disk, req["ws"].sessionKey, ok)
    /\ saves' = [saves EXCEPT !["ws"] = @ + 1]
    /\ outcome' = [outcome EXCEPT !["ws"] = "completed"]
    /\ pc' = [pc EXCEPT !["ws"] = "done"]
    /\ UNCHANGED <<phase, providerMap, mem, nturns, conn, req, history, idx,
                   fullResponse, frames, resp, tid, streams, nunits>>
    /\ updated' = Saved(updated, mem, req["ws"].sessionKey, ok)
    /\ UNCHANGED <<peer, api, purged, probe, client>>

(* the client goes away during the stream: handleWebSocket handed          *)
(* context.Background() to StreamChat, which nothing cancels                *)
WsDisconnect ==
    /\ pc["ws"] = "stream"
    /\ peer["ws"] = "here"
    /\ Fault(TRUE)
    /\ peer' = [peer EXCEPT !["ws"] = "gone"]
    /\ UNCHANGED <<phase, providerMap, mem, disk, nturns, conn, pc, req, history, idx,
                   fullResponse, frames, resp, outcome, tid, saves, streams, nunits, api,
                   purged, updated, probe, client>>

(* mutant: a turn that failed ends the connection loop *)
WsReturn_ClosesOnFailure ==
    /\ pc["ws"] = "done"
    /\ Forget("ws")
    /\ streams' = Release(streams, tid["ws"])
    /\ conn' = IF outcome["ws"] \in {"noprovider", "callerror", "error", "writefail"}
               THEN "closed" ELSE conn
    /\ UNCHANGED <<phase, providerMap, mem, disk, nturns, nunits, nfaults>>
    /\ UNCHANGED <<peer, api, purged, updated, probe, client>>

(* the turn is over: continue, or fall out of the chunk loop, to conn.ReadJSON *)
WsReturn ==
    /\ pc["ws"] = "done"
    /\ Forget("ws")
    /\ streams' = Release(streams, tid["ws"])
    /\ UNCHANGED <<phase, providerMap, mem, disk, nturns, conn, nunits, nfaults>>
    /\ UNCHANGED <<peer, api, purged, updated, probe, client>>

-----------------------------------------------------------------------------
(* The session endpoints *)

(* A response of a session endpoint: the plain text of an http.Error, or    *)
(* the JSON value encoded: {"success": ...}, a message list, a session      *)
(* list; n numbers the request, key is the session key of its path; dirOk   *)
(* and bad record what the storage did to the request: whether os.ReadDir   *)
(* succeeded, and the session files that could not be read or parsed;       *)
(* models is the list of ModelsResponse of /api/models                      *)
ApiResponse(op, n, status) == [NoApi EXCEPT !.op = op, !.n = n, !.status = status]

ApiError(op, n, status, text) == [ApiResponse(op, n, status) EXCEPT !.text = text \o "\n"]

SessionInfo(key, messages, upd) == [Key |-> key, Messages |-> messages, Updated |-> upd]

(* mutant: a session file is read short of its last message *)
SessionList_Partial(d, u, bad) ==
    {SessionInfo(k, Len(d[k]) - 1, u[k]) : k \in (DOMAIN d) \ bad}

(* the summaries handleSessions builds from the session files; bad: the     *)
(* files os.ReadFile or json.Unmarshal fails on, which it skips             *)
SessionList(d, u, bad) == {SessionInfo(k, Len(d[k]), u[k]) : k \in (DOMAIN d) \ bad}

(* mutant: the oldest session first *)
Less_OldestFirst(a, b) == a.Updated < b.Updated

(* the less function handed to sort.Slice: the newest session first *)
Less(a, b) == a.Updated > b.Updated

(* sort.Slice(sessionList, less): the list in an order in which no element  *)
(* is less than one before it; the sort is not stable, elements neither of  *)
(* which is less than the other come in any order                           *)
SortSlice(list) ==
    {l \in [1..Cardinality(list) -> list] :
        /\ \A e \in list : \E i \in DOMAIN l : l[i] = e
        /\ \A i, j \in DOMAIN l : i < j => ~Less(l[j], l[i])}

(* handleSessions: GET /api/sessions. dirOk: whether os.ReadDir succeeds *)
handleSessions(method, dirOk, bad) ==
    /\ phase = "serving"
    /\ nturns < MaxTurns
    /\ nturns' = nturns + 1
    /\ bad \subseteq DOMAIN disk
    /\ bad # {} => method = "GET" /\ dirOk
    /\ Fault(method = "GET" /\ (~dirOk \/ bad # {}))
    /\ IF method # "GET"
          THEN api' = ApiError("list", nturns + 1, StatusMethodNotAllowed, "Method not allowed")
       ELSE IF ~dirOk
          THEN api' = [ApiResponse("list", nturns + 1, StatusOK) EXCEPT !.dirOk = FALSE]
       ELSE \E sorted \in SortSlice(SessionList(disk, updated.disk, bad)) :
               api' = [ApiResponse("list", nturns + 1, StatusOK) EXCEPT
                          !.sessions = sorted, !.bad = bad]
    /\ UNCHANGED <<phase, providerMap, mem, disk, conn, pc, req, history, idx,
                   fullResponse, frames, resp, outcome, tid, saves, streams, nunits, peer,
                   purged, updated, probe, client>>

(* what handleSessionDetail answers; deleted: the result of sessions.Delete, *)
(* hist: the result of sessions.GetHistory                                   *)
DetailResponse_AlwaysSuccess(method, path, n, deleted, hist) ==
    IF path = "" THEN ApiError("detail", n, StatusBadRequest, "Session key required")
    ELSE IF method = "DELETE"
        THEN [ApiResponse("delete", n, StatusOK) EXCEPT !.key = path, !.success = TRUE]
    ELSE IF method = "GET"
        THEN [ApiResponse("get", n, StatusOK) EXCEPT !.key = path, !.messages = Untag(hist)]
    ELSE ApiError("detail", n, StatusMethodNotAllowed, "Method not allowed")

DetailResponse(method, path, n, deleted, hist) ==
    IF path = "" THEN ApiError("detail", n, StatusBadRequest, "Session key required")
    ELSE IF method = "DELETE"
        THEN [ApiResponse("delete", n, StatusOK) EXCEPT !.key = path, !.success = deleted]
    ELSE IF method = "GET"
        THEN [ApiResponse("get", n, StatusOK) EXCEPT !.key = path, !.messages = Untag(hist)]
    ELSE ApiError("detail", n, StatusMethodNotAllowed, "Method not allowed")

(* mutant: every method but GET removes the session *)
handleSessionDetail_DeletesUnlessGet(method, path) ==
    /\ phase = "serving"
    /\ nturns < MaxTurns
    /\ nturns' = nturns + 1
    /\ LET removed == Delete(mem, disk, path)
           deleting == path # "" /\ method # "GET"
       IN  /\ mem' = IF deleting THEN removed.mem ELSE mem
           /\ disk' = IF deleting THEN removed.disk ELSE disk
           /\ api' = DetailResponse(method, path, nturns + 1, removed.deleted,
                                    GetHistory(mem, path))
           /\ purged' = IF deleting THEN Put(purged, path, nturns + 1) ELSE purged
           /\ updated' = IF deleting THEN Removed(updated, path) ELSE updated
    /\ UNCHANGED <<phase, providerMap, conn, pc, req, history, idx, fullResponse,
                   frames, resp, outcome, tid, saves, streams, nunits, nfaults, peer,
                   probe, client>>

(* handleSessionDetail: GET or DELETE /api/sessions/{key} *)
handleSessionDetail(method, path) ==
    /\ phase = "serving"
    /\ nturns < MaxTurns
    /\ nturns' = nturns + 1
    /\ LET removed == Delete(mem, disk, path)
           deleting == path # "" /\ method = "DELETE"
       IN  /\ mem' = IF deleting THEN removed.mem ELSE mem
           /\ disk' = IF deleting THEN removed.disk ELSE disk
           /\ api' = DetailResponse(method, path, nturns + 1, removed.deleted,
                                    GetHistory(mem, path))
           /\ purged' = IF deleting THEN Put(purged, path, nturns + 1) ELSE purged
           /\ updated' = IF deleting THEN Removed(updated, path) ELSE updated
    /\ UNCHANGED <<phase, providerMap, conn, pc, req, history, idx, fullResponse,
                   frames, resp, outcome, tid, saves, streams, nunits, nfaults, peer,
                   probe, client>>

-----------------------------------------------------------------------------
(* handleModels: GET /api/models?provider=...; ok, models: what ListModels  *)
(* of a provider returns when the handler calls it                          *)
ModelsResponse(name, ok, models) ==
    [Provider |-> name, Models |-> IF ok THEN models ELSE <<"default">>]

ModelQueries == {"", "ollama", "gpt-nope"}

(* mutant: a provider whose listing fails is taken out of the registry *)
handleModels_DropsUnreachable(query, ok, models) ==
    /\ phase = "serving"
    /\ nturns < MaxTurns
    /\ nturns' = nturns + 1
    /\ Fault(~ok)
    /\ ok \/ models = <<>>
    /\ LET providerName == IF query = "" THEN "all" ELSE query
       IN  IF providerName = "all"
           THEN api' = [ApiResponse("models", nturns + 1, StatusOK) EXCEPT
                           !.models = {ModelsResponse(name, ok, models) : name \in providerMap}]
           ELSE IF getProvider(providerMap, providerName) = Nil
               THEN api' = ApiError("models", nturns + 1, StatusNotFound, "Provider not found")
           ELSE api' = [ApiResponse("models", nturns + 1, StatusOK) EXCEPT
                           !.models = {ModelsResponse(providerName, ok, models)}]
    /\ providerMap' = IF ok THEN providerMap ELSE {}
    /\ UNCHANGED <<phase, mem, disk, conn, pc, req, history, idx,
                   fullResponse, frames, resp, outcome, tid, saves, streams, nunits, peer,
                   purged, updated, probe, client>>

handleModels(query, ok, models) ==
    /\ phase = "serving"
    /\ nturns < MaxTurns
    /\ nturns' = nturns + 1
    /\ Fault(~ok)
    /\ ok \/ models = <<>>
    /\ LET providerName == IF query = "" THEN "all" ELSE query
       IN  IF providerName = "all"
           THEN api' = [ApiResponse("models", nturns + 1, StatusOK) EXCEPT
                           !.models = {ModelsResponse(name, ok, models) : name \in providerMap}]
           ELSE IF getProvider(providerMap, providerName) = Nil
               THEN api' = ApiError("models", nturns + 1, StatusNotFound, "Provider not found")
           ELSE api' = [ApiResponse("models", nturns + 1, StatusOK) EXCEPT
                           !.models = {ModelsResponse(providerName, ok, models)}]
    /\ UNCHANGED <<phase, providerMap, mem, disk, conn, pc, req, history, idx,
                   fullResponse, frames, resp, outcome, tid, saves, streams, nunits, peer,
                   purged, updated, probe, client>>

-----------------------------------------------------------------------------
(* The process is stopped and started again: every goroutine and everything *)
(* in memory is gone, the session files stay                                *)
Restart ==
    /\ phase # "init"
    /\ Fault(TRUE)
    /\ phase' = "init"
    /\ providerMap' = {}
    /\ mem' = NewSessionManager(disk)
    /\ conn' = "closed"
    /\ pc' = [h \in Handlers |-> "idle"]
    /\ req' = [h \in Handlers |-> NoReq]
    /\ history' = [h \in Handlers |-> <<>>]
    /\ idx' = [h \in Handlers |-> 0]
    /\ fullResponse' = [h \in Handlers |-> ""]
    /\ frames' = [h \in Handlers |-> <<>>]
    /\ resp' = [h \in Handlers |-> NoResp]
    /\ outcome' = [h \in Handlers |-> "none"]
    /\ tid' = [h \in Handlers |-> 0]
    /\ saves' = [h \in Handlers |-> 0]
    /\ streams' = <<>>
    /\ peer' = [h \in Handlers |-> "here"]
    /\ api' = NoApi
    /\ updated' = Reloaded(updated)
    /\ probe' = <<>>
    /\ UNCHANGED client
    /\ UNCHANGED <<disk, nturns, nunits, purged>>

-----------------------------------------------------------------------------
(* The web client: class PicoClawApp of the page, one instance per page.    *)
(* Its turns are POST /api/chat requests served by handleChat.              *)

WebSessionKey == "webui:1"      \* 'webui:' + Date.now()
WebProvider == "ollama"         \* this.elements.provider.value
WebModel == "llama3.2"          \* this.elements.model.value
UserInputs == {"", "hi"}        \* this.elements.userInput.value.trim()
Null == "null"

(* constructor(). pc is the position of the one asynchronous call chain     *)
(* sendMessage can have started: "ready" (none), "fetch" (awaiting fetch),  *)
(* "read" (awaiting reader.read()). request is the body of the fetch and    *)
(* ticket the number the server gives the request; streaming is the         *)
(* checkbox as sendMessage read it, shown the innerHTML of the turn's       *)
(* contentDiv. History of the turn: pushed counts the this.messages.push    *)
(* calls, gotError tells whether a data line with an error field was        *)
(* parsed, ended how the call chain ended, ignored whether a sendMessage    *)
(* call has returned at its first line.                                     *)
NewPicoClawApp ==
    [messages |-> <<>>, isStreaming |-> FALSE, abortController |-> Null,
     sessionKey |-> WebSessionKey,
     pc |-> "ready", request |-> NoReq, ticket |-> 0, streaming |-> TRUE, cursor |-> 0,
     fullResponse |-> "", shown |-> "", turns |-> 0,
     pushed |-> 0, gotError |-> FALSE, ended |-> "none", ignored |-> FALSE]

(* this.messages.push({ role: 'assistant', content }) *)
Push(c, content) ==
    [c EXCEPT !.messages = Append(@, [role |-> "assistant", content |-> content]),
              !.pushed = @ + 1]

(* mutant: the flags of the turn are left as they are *)
Finally_LeavesFlags(c) == [c EXCEPT !.pc = "ready"]

(* sendMessage: the finally block *)
Finally(c) == [c EXCEPT !.isStreaming = FALSE, !.abortController = Null, !.pc = "ready"]

(* sendMessage: the catch block, then the finally block *)
Caught(c, message) ==
    Finally([c EXCEPT !.shown = "Error: " \o message, !.ended = "caught"])

(* the await in sendMessage returns normally, then the finally block *)
Returned(c) == Finally([c EXCEPT !.ended = "returned"])

(* sendMessage: if (!content || this.isStreaming) return; *)
Refused(c, content) == content = "" \/ c.isStreaming

(* sendMessage, from the event to the fetch call of streamResponse or       *)
(* nonStreamResponse. The user message goes to the page only (addMessage);  *)
(* the body carries this.messages and the new user message.                 *)
sendMessage(content, useStreaming) ==
    /\ phase = "serving"
    /\ IF Refused(client, content)
       THEN client' = [client EXCEPT !.ignored = TRUE]
       ELSE /\ client.turns < MaxTurns
            /\ client' =
                 [client EXCEPT
                    !.isStreaming = TRUE, !.abortController = "AbortController",
                    !.streaming = useStreaming,
                    !.request =
                       [sessionKey |-> client.sessionKey, provider |-> WebProvider,
                        model |-> WebModel, systemPrompt |-> "",
                        messages |-> client.messages
                                       \o <<[role |-> "user", content |-> content]>>],
                    !.ticket = nturns + 1, !.pc = "fetch", !.cursor = 0,
                    !.fullResponse = "", !.shown = "", !.turns = @ + 1,
                    !.pushed = 0, !.gotError = FALSE, !.ended = "none"]
    /\ UNCHANGED <<phase, providerMap, mem, disk, nturns, conn, pc, req, history, idx,
                   fullResponse, frames, resp, outcome, tid, saves, streams, nunits,
                   nfaults, peer, api, purged, updated, probe>>

(* the request of the client reaches handleChat *)
Fetch ==
    /\ client.pc = "fetch"
    /\ ChatReceive("POST", TRUE, client.request)

(* the handler serving the client's request, and what it has written *)
Serving == pc["http"] # "idle" /\ tid["http"] = client.ticket

HeadersWritten ==
    resp["http"].status # 0 \/ pc["http"] \in {"stream", "append", "save", "done"}

(* response.status: 200 unless the handler answered with http.Error *)
ResponseStatus == IF resp["http"].status = 0 THEN StatusOK ELSE resp["http"].status

(* response.ok *)
ResponseOk == ResponseStatus >= 200 /\ ResponseStatus <= 299

(* await fetch(...) returns; if (!response.ok) throw *)
FetchResolves ==
    /\ client.pc = "fetch"
    /\ Serving /\ HeadersWritten
    /\ client' =
         IF ResponseOk THEN [client EXCEPT !.pc = "read"]
         ELSE Caught(client, "HTTP error! status: " \o ToString(ResponseStatus))
    /\ UNCHANGED <<phase, providerMap, mem, disk, nturns, conn, pc, req, history, idx,
                   fullResponse, frames, resp, outcome, tid, saves, streams, nunits,
                   nfaults, peer, api, purged, updated, probe>>

(* streamResponse and nonStreamResponse: the body of the loop over the      *)
(* lines, for one data line. JSON.parse and the throw of data.error are     *)
(* inside the try block whose catch logs the exception and goes on.         *)
OnData(c, f) ==
    IF f.malformed THEN c
    ELSE IF f.error # "" THEN [c EXCEPT !.gotError = TRUE]
    ELSE LET full == IF f.content # "" THEN c.fullResponse \o f.content
                     ELSE c.fullResponse
             shown == IF c.streaming THEN (IF f.content # "" THEN full ELSE c.shown)
                      ELSE (IF f.done THEN full ELSE c.shown)
             d == [c EXCEPT !.fullResponse = full, !.shown = shown]
         IN  IF f.done THEN Push(d, full) ELSE d

(* reader.read() yields the next data line of the response body *)
ReadFrame ==
    /\ client.pc = "read"
    /\ Serving
    /\ client.cursor < Len(frames["http"])
    /\ client' = OnData([client EXCEPT !.cursor = @ + 1],
                        frames["http"][client.cursor + 1])
    /\ UNCHANGED <<phase, providerMap, mem, disk, nturns, conn, pc, req, history, idx,
                   fullResponse, frames, resp, outcome, tid, saves, streams, nunits,
                   nfaults, peer, api, purged, updated, probe>>

(* after the read loop: streamResponse records the text if there is any,    *)
(* nonStreamResponse only if no message of the list has that content        *)
AfterLoop(c) ==
    IF c.streaming
    THEN (IF c.fullResponse # "" THEN Push(c, c.fullResponse) ELSE c)
    ELSE (IF c.fullResponse # "" /\ \A i \in 1..Len(c.messages) :
                                       c.messages[i].content # c.fullResponse
          THEN Push(c, c.fullResponse) ELSE c)

(* reader.read() reports the end of the body: the handler has written all   *)
(* it writes and every line has been read                                   *)
ReadDone ==
    /\ client.pc = "read"
    /\ Serving
    /\ pc["http"] = "done"
    /\ client.cursor = Len(frames["http"])
    /\ client' = Returned(AfterLoop(client))
    /\ UNCHANGED <<phase, providerMap, mem, disk, nturns, conn, pc, req, history, idx,
                   fullResponse, frames, resp, outcome, tid, saves, streams, nunits,
                   nfaults, peer, api, purged, updated, probe>>

(* the connection is lost: the pending fetch or reader.read() rejects *)
ReadThrows ==
    /\ client.pc \in {"fetch", "read"}
    /\ Serving
    /\ peer["http"] = "gone"
    /\ client' = Caught(client, "network error")
    /\ UNCHANGED <<phase, providerMap, mem, disk, nturns, conn, pc, req, history, idx,
                   fullResponse, frames, resp, outcome, tid, saves, streams, nunits,
                   nfaults, peer, api, purged, updated, probe>>

(* handleChat returns; what it has written stays readable until the client  *)
(* has read it                                                              *)
Close ==
    /\ ~Serving \/ client.pc = "ready"
    /\ ChatReturn

-----------------------------------------------------------------------------
Init ==
    /\ phase = "init"
    /\ providerMap = {}
    /\ mem = <<>>
    /\ disk = <<>>
    /\ nturns = 0
    /\ conn = "closed"
    /\ pc = [h \in Handlers |-> "idle"]
    /\ req = [h \in Handlers |-> NoReq]
    /\ history = [h \in Handlers |-> <<>>]
    /\ idx = [h \in Handlers |-> 0]
    /\ fullResponse = [h \in Handlers |-> ""]
    /\ frames = [h \in Handlers |-> <<>>]
    /\ resp = [h \in Handlers |-> NoResp]
    /\ outcome = [h \in Handlers |-> "none"]
    /\ tid = [h \in Handlers |-> 0]
    /\ saves = [h \in Handlers |-> 0]
    /\ streams = <<>>
    /\ nunits = 0
    /\ nfaults = 0
    /\ peer = [h \in Handlers |-> "here"]
    /\ api = NoApi
    /\ purged = <<>>
    /\ updated = [mem |-> <<>>, disk |-> <<>>]
    /\ probe = <<>>
    /\ client = NewPicoClawApp

(* The process is started on a storage directory that holds the session of *)
(* an earlier run.                                                          *)
OldTurn == MaxTurns + 1     \* the tag of a message stored by an earlier run

OldStore == [s0 |-> <<Message("user", "hi", OldTurn)>>]

OldUpdated == [s0 |-> 0]

StoredInit ==
    /\ phase = "init"
    /\ providerMap = {}
    /\ disk = OldStore
    /\ mem = NewSessionManager(OldStore)
    /\ updated = Reloaded([mem |-> <<>>, disk |-> OldUpdated])
    /\ nturns = 0
    /\ conn = "closed"
    /\ pc = [h \in Handlers |-> "idle"]
    /\ req = [h \in Handlers |-> NoReq]
    /\ history = [h \in Handlers |-> <<>>]
    /\ idx = [h \in Handlers |-> 0]
    /\ fullResponse = [h \in Handlers |-> ""]
    /\ frames = [h \in Handlers |-> <<>>]
    /\ resp = [h \in Handlers |-> NoResp]
    /\ outcome = [h \in Handlers |-> "none"]
    /\ tid = [h \in Handlers |-> 0]
    /\ saves = [h \in Handlers |-> 0]
    /\ streams = <<>>
    /\ nunits = 0
    /\ nfaults = 0
    /\ peer = [h \in Handlers |-> "here"]
    /\ api = NoApi
    /\ purged = <<>>
    /\ probe = <<>>
    /\ client = NewPicoClawApp

Next ==
    \/ \E models \in ProbeResults : Main(models)
    \/ \E t \in 1..MaxTurns, up \in UpChats \cup UpAborts : WrapperProduce(t, up)
    \/ \E t \in 1..MaxTurns, u \in UpUnits \cup UpAbortUnits : NativeProduce(t, u)
    \/ \E method \in {"POST", "GET"}, bodyOk \in BOOLEAN, r \in ChatRequests :
          ChatReceive(method, bodyOk, r)
    \/ ChatAddMessage
    \/ \E flusherOk \in BOOLEAN, kind \in AdapterKinds, up \in UpCalls :
          ChatStartStream(flusherOk, kind, up)
    \/ ChatRecv
    \/ ChatLoopExit
    \/ ChatDisconnect
    \/ ChatAppend
    \/ \E ok \in BOOLEAN : ChatSave(ok)
    \/ ChatReturn
    \/ \E ok \in BOOLEAN : WsUpgrade(ok)
    \/ WsReadError
    \/ \E r \in ChatRequests : WsReceive(r)
    \/ WsAddMessage
    \/ \E kind \in AdapterKinds, up \in UpCalls : WsStartStream(kind, up)
    \/ \E writeOk \in BOOLEAN : WsRecv(writeOk)
    \/ WsLoopExit
    \/ WsDisconnect
    \/ WsAppend
    \/ \E ok \in BOOLEAN : WsSave(ok)
    \/ WsReturn
    \/ \E method \in ApiMethods, dirOk \in BOOLEAN, bad \in SUBSET StoredKeys :
          handleSessions(method, dirOk, bad)
    \/ \E method \in ApiMethods, path \in ApiPaths : handleSessionDetail(method, path)
    \/ \E query \in ModelQueries, ok \in BOOLEAN, models \in ProbeResults :
          handleModels(query, ok, models)
    \/ Restart

Spec == Init /\ [][Next]_vars

StoredSpec == StoredInit /\ [][Next]_vars

(* Scheduling: every goroutine that can take its next step eventually takes *)
(* it; an upstream call returns or its body yields its next unit within the *)
(* HTTP client's timeout.                                                   *)
Fairness ==
    /\ \A t \in 1..MaxTurns :
         /\ WF_vars(\E up \in UpChats \cup UpAborts : WrapperProduce(t, up))
         /\ WF_vars(\E u \in UpUnits \cup UpAbortUnits : NativeProduce(t, u))
    /\ WF_vars(ChatAddMessage)
    /\ WF_vars(\E flusherOk \in BOOLEAN, kind \in AdapterKinds, up \in UpCalls :
                  ChatStartStream(flusherOk, kind, up))
    /\ WF_vars(ChatRecv) /\ WF_vars(ChatLoopExit) /\ WF_vars(ChatAppend)
    /\ WF_vars(\E ok \in BOOLEAN : ChatSave(ok)) /\ WF_vars(ChatReturn)
    /\ WF_vars(WsAddMessage)
    /\ WF_vars(\E kind \in AdapterKinds, up \in UpCalls : WsStartStream(kind, up))
    /\ WF_vars(\E writeOk \in BOOLEAN : WsRecv(writeOk)) /\ WF_vars(WsLoopExit)
    /\ WF_vars(WsAppend) /\ WF_vars(\E ok \in BOOLEAN : WsSave(ok)) /\ WF_vars(WsReturn)

FairSpec == Spec /\ Fairness

-----------------------------------------------------------------------------
(* The registry on its own: entries are put into providerMap in any order,  *)
(* then the default provider is resolved, as a handler resolves it for a    *)
(* request that names no provider.                                          *)
ProviderNames == {"ollama", "vllm", "openai", "anthropic", "groq", "gpt-nope"}

(* providerMap[name] = wrapper *)
Register(name) ==
    /\ pc["http"] = "idle"
    /\ providerMap' = providerMap \cup {name}
    /\ UNCHANGED <<phase, mem, disk, nturns, conn, pc, req, history, idx, fullResponse,
                   frames, resp, outcome, tid, saves, streams, nunits, nfaults, peer, api,
                   purged, updated, probe, client>>

(* if p := getDefaultProvider(); p != nil { providerName = p.Name() } *)
ResolveDefault ==
    /\ pc["http"] = "idle"
    /\ req' = [req EXCEPT !["http"].provider = getDefaultProvider(providerMap)]
    /\ pc' = [pc EXCEPT !["http"] = "done"]
    /\ UNCHANGED <<phase, providerMap, mem, disk, nturns, conn, history, idx, fullResponse,
                   frames, resp, outcome, tid, saves, streams, nunits, nfaults, peer, api,
                   purged, updated, probe, client>>

RegistryNext ==
    \/ \E name \in ProviderNames : Register(name)
    \/ ResolveDefault

RegistrySpec == Init /\ [][RegistryNext]_vars

-----------------------------------------------------------------------------
(* The page and the server: every chat request is a turn of the web client  *)
ClientNext ==
    \/ \E models \in ProbeResults : Main(models)
    \/ \E content \in UserInputs, useStreaming \in BOOLEAN :
          sendMessage(content, useStreaming)
    \/ Fetch
    \/ FetchResolves
    \/ ReadFrame
    \/ ReadDone
    \/ ReadThrows
    \/ \E t \in 1..MaxTurns, up \in UpChats \cup UpAborts : WrapperProduce(t, up)
    \/ \E t \in 1..MaxTurns, u \in UpUnits \cup UpAbortUnits : NativeProduce(t, u)
    \/ ChatAddMessage
    \/ \E flusherOk \in BOOLEAN, kind \in AdapterKinds, up \in UpCalls :
          ChatStartStream(flusherOk, kind, up)
    \/ ChatRecv
    \/ ChatLoopExit
    \/ ChatDisconnect
    \/ ChatAppend
    \/ \E ok \in BOOLEAN : ChatSave(ok)
    \/ Close

ClientSpec == Init /\ [][ClientNext]_vars

(* Scheduling of the page and of the handler that serves it: the event      *)
(* loop runs every continuation that is ready, every goroutine that can     *)
(* take its next step takes it                                              *)
ClientFairness ==
    /\ \A t \in 1..MaxTurns :
         /\ WF_vars(\E up \in UpChats \cup UpAborts : WrapperProduce(t, up))
         /\ WF_vars(\E u \in UpUnits \cup UpAbortUnits : NativeProduce(t, u))
    /\ WF_vars(Fetch) /\ WF_vars(FetchResolves) /\ WF_vars(ReadFrame)
    /\ WF_vars(ReadDone) /\ WF_vars(ReadThrows)
    /\ WF_vars(ChatAddMessage)
    /\ WF_vars(\E flusherOk \in BOOLEAN, kind \in AdapterKinds, up \in UpCalls :
                  ChatStartStream(flusherOk, kind, up))
    /\ WF_vars(ChatRecv) /\ WF_vars(ChatLoopExit) /\ WF_vars(ChatAppend)
    /\ WF_vars(\E ok \in BOOLEAN : ChatSave(ok)) /\ WF_vars(Close)

ClientFairSpec == ClientSpec /\ ClientFairness
-----------------------------------------------------------------------------
(* Vocabulary of the properties *)

Terminal(c) == c.Done \/ c.Error # Nil

Last(s) == s[Len(s)]

(* the fields of the ChatResponse a frame was written for *)
Payload(f) == [content |-> f.content, done |-> f.done, error |-> f.error]

RECURSIVE ConcatContent(_)
ConcatContent(fs) ==
    IF fs = <<>> THEN "" ELSE Head(fs).content \o ConcatContent(Tail(fs))

(* the turn of handler h is over and the handler has not returned yet *)
TurnOver(h) == pc[h] = "done"

(* no request has deleted the session of the turn of handler h since the    *)
(* turn's request was read                                                  *)
Undisturbed(h) ==
    req[h].sessionKey \in DOMAIN purged => purged[req[h].sessionKey] < tid[h]

(* the turn was accepted: the request was read and decoded *)
Accepted(h) == TurnOver(h) /\ outcome[h] # "rejected"

(* the last frame written to the client is a done frame *)
EndedByDone(h) == frames[h] # <<>> /\ Last(frames[h]).done /\ Last(frames[h]).error = Nil

SessionOf(h) == GetHistory(mem, req[h].sessionKey)

(* H: the history the turn loaded; M: the request's messages, as stored *)
Loaded(h) == SelectSeq(history[h], LAMBDA m : m.turn \notin {0, tid[h]})

Requested(h) ==
    [i \in 1..Len(req[h].messages) |->
        Message(req[h].messages[i].role, req[h].messages[i].content, tid[h])]

(* what the turn itself has appended to a sequence of stored messages *)
Mine(h, msgs) == SelectSeq(msgs, LAMBDA m : m.turn = tid[h])

IsPrefix(s, t) == Len(s) <= Len(t) /\ SubSeq(t, 1, Len(s)) = s

Reply(h) ==
    IF ConcatContent(frames[h]) # ""
    THEN <<Message("assistant", ConcatContent(frames[h]), tid[h])>> ELSE <<>>

-----------------------------------------------------------------------------
(* C1: on every adapter stream no chunk carries both Done and Error, at     *)
(* most one terminal chunk (Done or Error) is ever sent, and nothing is     *)
(* sent after it: a terminal chunk is the last chunk of the stream.         *)
C1_TerminalChunkIsLast ==
    \A t \in DOMAIN streams :
        LET log == streams[t].log
        IN  /\ \A i \in 1..Len(log) :
                 /\ ~(log[i].Done /\ log[i].Error # Nil)
                 /\ Terminal(log[i]) => i = Len(log)
            /\ Cardinality({i \in 1..Len(log) : Terminal(log[i])}) <= 1

(* a native stream that sent content and then its terminal chunk, and closed *)
C1_Witness ==
    \E t \in DOMAIN streams :
        /\ streams[t].kind = "native" /\ streams[t].closed
        /\ Len(streams[t].log) >= 2 /\ Terminal(Last(streams[t].log))

(* C2: a closed adapter stream has sent a terminal chunk (Done or Error)    *)
(* before it closed.                                                        *)
C2_ClosedAfterTerminal ==
    \A t \in DOMAIN streams :
        streams[t].closed => \E i \in 1..Len(streams[t].log) : Terminal(streams[t].log[i])

(* C3, as claimed: after a turn that ended by a done frame the session      *)
(* history is H, then the request's messages, then exactly one assistant    *)
(* message carrying the concatenation of the content frames.                *)
C3_HistoryAfterCompleted ==
    \A h \in Handlers :
        TurnOver(h) /\ EndedByDone(h) =>
            SessionOf(h) = Loaded(h) \o Requested(h)
                           \o <<Message("assistant", ConcatContent(frames[h]), tid[h])>>

(* C3, amended: after a turn that ended by a done frame, the session not     *)
(* having been deleted during the turn, the session history                 *)
(* starts with H and, beyond H, what the turn appended is the request's     *)
(* messages followed by one assistant message carrying the concatenation of *)
(* the content frames when that is non-empty, and by nothing when it is     *)
(* empty; with no other turn appending meanwhile the history is exactly     *)
(* H, the request's messages, and that reply.                               *)
C3_HistoryAfterCompletedNonEmpty ==
    \A h \in Handlers :
        TurnOver(h) /\ EndedByDone(h) /\ Undisturbed(h) =>
            LET cur == SessionOf(h)
                H == Loaded(h)
                beyond == SubSeq(cur, Len(H) + 1, Len(cur))
            IN  /\ IsPrefix(H, cur)
                /\ Mine(h, beyond) = Requested(h) \o Reply(h)
                /\ (Mine(h, beyond) = beyond => cur = H \o Requested(h) \o Reply(h))

(* a completed turn on a session with earlier history, with two content     *)
(* frames, whose history is H, the user message and the assistant message   *)
C3_Witness ==
    \E h \in Handlers :
        /\ TurnOver(h) /\ EndedByDone(h)
        /\ Loaded(h) # <<>> /\ Requested(h) # <<>> /\ Len(frames[h]) >= 3
        /\ SessionOf(h) = Loaded(h) \o Requested(h)
                          \o <<Message("assistant", "parpar", tid[h])>>
(* the stream the turn of handler h was served from, when there is one *)
Streamed(h) == tid[h] \in DOMAIN streams

StreamOf(h) == streams[tid[h]]

C6_NoCommitWithoutDone ==
    \A h \in Handlers :
        (TurnOver(h) /\ ~EndedByDone(h)) =>
            /\ saves[h] = 0
            /\ IsPrefix(Mine(h, SessionOf(h)), Requested(h))

(* a turn that forwarded and accumulated "par" and then ended on an error chunk *)
C6_Witness ==
    \E h \in Handlers :
        /\ TurnOver(h) /\ ~EndedByDone(h) /\ outcome[h] = "error"
        /\ fullResponse[h] = "par" /\ Len(frames[h]) = 2
        /\ Mine(h, SessionOf(h)) = Requested(h) /\ Requested(h) # <<>>

(* the turn names a provider that is not in the registry *)
Unresolved(h) == Accepted(h) /\ getProvider(providerMap, req[h].provider) = Nil

C8_UnknownProviderKeepsUserMessage ==
    \A h \in Handlers :
        Unresolved(h) => Mine(h, SessionOf(h)) = Requested(h)

(* a turn whose provider resolved and that ended without a done frame *)
FailedTurn(h) ==
    /\ Accepted(h) /\ getProvider(providerMap, req[h].provider) # Nil
    /\ ~EndedByDone(h)

(* C9: after a turn whose provider resolved and whose generation failed,    *)
(* the request's messages are in the durable state of the session.          *)
C9_UserMessageDurableAfterFailure ==
    \A h \in Handlers :
        FailedTurn(h) =>
            Mine(h, GetHistory(disk, req[h].sessionKey)) = Requested(h)

(* C10, as claimed: a turn that received a done fragment has called Save,   *)
(* also when the accumulated buffer is empty.                               *)
C10_DoneAlwaysSaves ==
    \A h \in Handlers :
        (TurnOver(h) /\ EndedByDone(h)) => saves[h] >= 1

(* the stored messages, in memory and durable, of every session *)
Stored == {mem[k] : k \in DOMAIN mem} \cup {disk[k] : k \in DOMAIN disk}

(* C11: the message list handed to the adapter is the system prompt, when   *)
(* one was supplied, followed by the loaded history and the request's       *)
(* messages, and no message that originates from a systemPrompt field is in *)
(* the session store, in memory or durable.                                 *)
C11_SystemPromptNotStored ==
    /\ \A h \in Handlers :
         Streamed(h) =>
            LET sent == StreamOf(h).messages
                rest == Untag(Loaded(h) \o Requested(h))
                sys == req[h].systemPrompt
            IN  IF sys # "" THEN sent = <<[role |-> "system", content |-> sys]>> \o rest
                ELSE sent = rest
    /\ \A msgs \in Stored : \A i \in 1..Len(msgs) : msgs[i].turn # 0

(* a completed, saved turn that sent "be brief" ahead of its user message *)
C11_Witness ==
    \E h \in Handlers :
        /\ Streamed(h) /\ TurnOver(h) /\ EndedByDone(h) /\ saves[h] = 1
        /\ req[h].systemPrompt = "be brief"
        /\ Head(StreamOf(h).messages) = [role |-> "system", content |-> "be brief"]
        /\ Len(StreamOf(h).messages) = 2
        /\ Len(GetHistory(disk, req[h].sessionKey)) = 2

(* C12: on both transports the frames written in a turn are, one for one    *)
(* and in the same order, the chunks the adapter sent on its channel and    *)
(* the handler has received: none reordered, duplicated or dropped (the     *)
(* chunk whose write failed on the socket, which ends the turn, is the one  *)
(* chunk received and not written).                                         *)
C12_FramesInChunkOrder ==
    \A h \in Handlers :
        Streamed(h) =>
            LET log == StreamOf(h).log
                taken == Len(log) - Len(StreamOf(h).chan)
                written == IF outcome[h] = "writefail" THEN taken - 1 ELSE taken
            IN  /\ Len(frames[h]) = written
                /\ \A i \in 1..written :
                     Payload(frames[h][i]) = [content |-> log[i].Content,
                                              done |-> log[i].Done, error |-> log[i].Error]

(* a frame has been written while two later chunks wait in the channel *)
C12_Witness ==
    \E h \in Handlers :
        /\ Streamed(h) /\ pc[h] = "stream"
        /\ frames[h] = <<Frame("par", FALSE, Nil)>>
        /\ StreamOf(h).chan = <<Chunk("par", FALSE, Nil), Chunk("", TRUE, Nil)>>

(* C13: on both transports, once the client of a streaming turn has gone    *)
(* away the context handed to StreamChat is cancelled.                      *)
C13_DisconnectCancels ==
    \A h \in Handlers :
        (pc[h] = "stream" /\ peer[h] = "gone") => StreamOf(h).cancelled

(* the frame is a terminal frame: done, or an error *)
TerminalFrame(f) == f.done \/ f.error # Nil

C15_ProducerNeverStuck ==
    \A t \in DOMAIN streams : streams[t].held # <<>> => Referenced(t)

C17_DeleteRemoves ==
    [][(api'.op = "delete" /\ api'.n # api.n) =>
          LET k == api'.key
          IN  /\ GetHistory(mem', k) = <<>>
              /\ GetHistory(disk', k) = <<>>
              /\ \A e \in SessionList(disk', updated'.disk, {}) : e.Key # k
              /\ api'.success = (k \in DOMAIN mem \/ k \in DOMAIN disk)]_vars

(* the session "s1" a turn had saved has been deleted, with success *)
C17_Witness ==
    /\ api.op = "delete" /\ api.key = "s1" /\ api.success
    /\ "s1" \notin DOMAIN mem /\ "s1" \notin DOMAIN disk
    /\ \E h \in Handlers : TurnOver(h) /\ req[h].sessionKey = "s1" /\ saves[h] = 1

(* C18: when two turns that ran concurrently on one session key have both   *)
(* completed, with storage working and no delete, the durable sequence of   *)
(* the key contains every message either turn appended: it is the in-memory *)
(* sequence.                                                                *)
C18_ConcurrentTurnsBothDurable ==
    (/\ \A h \in Handlers : TurnOver(h) /\ EndedByDone(h)
     /\ req["http"].sessionKey = req["ws"].sessionKey
     /\ nfaults = 0 /\ \A h \in Handlers : Undisturbed(h)) =>
        GetHistory(disk, req["http"].sessionKey) = GetHistory(mem, req["http"].sessionKey)

DeleteStep == api'.op = "delete" /\ api'.n # api.n

RestartStep == phase # "init" /\ phase' = "init"

ListStep == api'.op = "list" /\ api'.n # api.n /\ api'.status = StatusOK

(* C21: the session listing is, when the storage directory cannot be read,  *)
(* the empty list, and otherwise one summary (key, message count,           *)
(* last-updated) for every durable session whose file can be read and       *)
(* parsed and for nothing else, in descending order of last-updated.        *)
C21_ListingSortedAndExact ==
    [][ListStep =>
          LET l == api'.sessions
              readable == (DOMAIN disk) \ api'.bad
          IN  IF ~api'.dirOk THEN l = <<>>
              ELSE /\ {l[i].Key : i \in 1..Len(l)} = readable
                   /\ Len(l) = Cardinality(readable)
                   /\ \A i \in 1..Len(l) :
                        /\ l[i].Messages = Len(disk[l[i].Key])
                        /\ l[i].Updated = updated.disk[l[i].Key]
                   /\ \A i, j \in 1..Len(l) : i < j => l[i].Updated >= l[j].Updated]_vars

(* the listing reports the session "s1" of this run, two messages, ahead of *)
(* the older session "s0" of an earlier run                                 *)
C21_Witness ==
    /\ api.op = "list" /\ Len(api.sessions) = 2
    /\ api.sessions[1].Key = "s1" /\ api.sessions[1].Messages = 2
    /\ api.sessions[2].Key = "s0"
    /\ api.sessions[1].Updated > api.sessions[2].Updated
(* C22: on the socket connection turns are strictly sequential: a request   *)
(* is read only when the turn before has left its chunk loop and returned   *)
(* to the head of the handler's loop, and every frame written is a frame of *)
(* the turn being served, appended to the frames of that turn: frames of    *)
(* two turns never interleave.                                              *)
C22_SocketTurnsSequential ==
    [][/\ (tid'["ws"] # tid["ws"] /\ tid'["ws"] # 0) =>
            pc["ws"] = "idle" /\ tid["ws"] = 0 /\ frames["ws"] = <<>>
       /\ (frames'["ws"] # frames["ws"] /\ frames'["ws"] # <<>>) =>
            /\ tid'["ws"] # 0
            /\ IsPrefix(frames["ws"], frames'["ws"])
            /\ frames["ws"] # <<>> => tid'["ws"] = tid["ws"] /\ pc["ws"] = "stream"]_vars

(* the second turn of the connection has written a frame while the producer *)
(* of the first turn, which ended on a failed write, is still running       *)
C22_Witness ==
    /\ conn = "open" /\ tid["ws"] = 2 /\ frames["ws"] # <<>>
    /\ 1 \in DOMAIN streams /\ streams[1].ctx = "background" /\ streams[1].prod = "run"
(* the turn ran on a working transport: every write succeeded, the response *)
(* could be streamed                                                        *)
TransportWorked(h) == outcome[h] \notin {"writefail", "noflusher"}

(* the frames either transport owes the client for the chunks taken from    *)
(* the stream of the turn: one frame per chunk, with the chunk's fields     *)
FramesOwed(h) ==
    LET log == StreamOf(h).log
    IN  [i \in 1..(Len(log) - Len(StreamOf(h).chan)) |->
            Frame(log[i].Content, log[i].Done, log[i].Error)]

(* C23: both transports frame a turn alike: for every accepted turn, on the *)
(* event stream as on the socket, the frames are the same function of the   *)
(* request, the registry and the adapter's chunks: one error frame naming    *)
(* the provider when it is not registered, one error frame when StreamChat   *)
(* returns an error, otherwise one well-formed frame per chunk with the      *)
(* chunk's content, done and error; and the session gains the same messages: *)
(* nothing for an unregistered provider, otherwise the request's messages    *)
(* and, after done, the reply.                                               *)
C23_IdenticalFraming ==
    \A h \in Handlers :
        (TurnOver(h) /\ Accepted(h) /\ TransportWorked(h)) =>
            /\ Unresolved(h) =>
                  frames[h] = <<Frame("", FALSE, NotAvailable(req[h].provider))>>
            /\ Streamed(h) => frames[h] = FramesOwed(h)
            /\ outcome[h] = "callerror" =>
                  /\ Len(frames[h]) = 1
                  /\ frames[h][1].error # Nil /\ ~frames[h][1].malformed
            /\ Undisturbed(h) =>
                  Mine(h, SessionOf(h)) =
                      IF Unresolved(h) THEN <<>>
                      ELSE IF EndedByDone(h) THEN Requested(h) \o Reply(h)
                      ELSE Requested(h)
(* the step is a call of sessions.Save by handler h; the call failed, or    *)
(* had nothing to write that was not durable, when the step leaves the      *)
(* durable state as it was                                                  *)
SaveStep(h) == saves'[h] = saves[h] + 1

(* C24: a Save that fails after the done frame changes nothing the client   *)
(* sees: the frames of the turn stay as they are, ending with the done      *)
(* frame and with no error frame among them, the turn ends as completed,    *)
(* and the in-memory session is untouched and holds the turn's request      *)
(* messages and reply; and a Save that works writes the whole in-memory     *)
(* sequence of the key, so a later persist writes them.                     *)
C24_SaveFailureInvisible ==
    [][\A h \in Handlers :
          SaveStep(h) =>
              LET key == req[h].sessionKey
              IN  IF disk' = disk
                  THEN /\ frames'[h] = frames[h] /\ resp'[h] = resp[h]
                       /\ EndedByDone(h)
                       /\ \A i \in 1..Len(frames[h]) : frames[h][i].error = Nil
                       /\ outcome'[h] = "completed"
                       /\ mem' = mem
                       /\ Undisturbed(h) => Mine(h, GetHistory(mem, key)) = Requested(h) \o Reply(h)
                  ELSE disk'[key] = mem[key] /\ mem' = mem]_vars

(* the Save of a completed turn has failed: the session has its two         *)
(* messages in memory and nothing durable, the client has the done frame    *)
C24_Witness ==
    \E h \in Handlers :
        /\ TurnOver(h) /\ saves[h] = 1 /\ EndedByDone(h) /\ Undisturbed(h)
        /\ req[h].sessionKey \notin DOMAIN disk
        /\ Len(SessionOf(h)) = 2 /\ Mine(h, SessionOf(h)) = Requested(h) \o Reply(h)
(* C25: the default provider is a function of the set of registered names   *)
(* alone: the first name of the priority list that is registered, whatever  *)
(* else is registered and in whatever order the entries were put in, and    *)
(* none when no name of the priority list is registered.                    *)
C25_DefaultByPriority ==
    pc["http"] = "done" =>
        LET d == req["http"].provider
            ranked == {i \in 1..Len(Priority) : Priority[i] \in providerMap}
        IN  IF ranked = {} THEN d = Nil
            ELSE \E i \in ranked : d = Priority[i] /\ \A j \in ranked : i <= j

(* the default of a registry that holds "ollama" among other names is       *)
(* "ollama"                                                                 *)
C25_Witness ==
    /\ pc["http"] = "done" /\ req["http"].provider = "ollama"
    /\ {"ollama", "vllm", "gpt-nope"} \subseteq providerMap
(* C26: in every state every name the registry gives out, by                *)
(* getAvailableProviders or by getProvider, is a provider whose startup     *)
(* probe returned a list of at least one model; a provider whose probe      *)
(* failed or listed nothing is not in the registry.                         *)
C26_OnlyProbedProvidersRegistered ==
    /\ \A name \in getAvailableProviders(providerMap) : name = "ollama" /\ Len(probe) > 0
    /\ \A name \in ProviderNames :
         getProvider(providerMap, name) # Nil => name = "ollama" /\ Len(probe) > 0
    /\ Len(probe) = 0 => getAvailableProviders(providerMap) = {}

(* startup is over, the probe had failed: nothing is registered and the     *)
(* process has stopped                                                      *)
C26_Witness == phase = "fatal" /\ probe = <<>> /\ getAvailableProviders(providerMap) = {}
(* C27: the process serves only with a usable provider: while it serves the *)
(* registry has a default provider; a request is read, and a socket is      *)
(* accepted, only while it serves; and a process that found no provider at  *)
(* startup has stopped with no handler running.                             *)
C27_NoServingWithoutProvider ==
    /\ [](phase = "serving" => getDefaultProvider(providerMap) # Nil)
    /\ []((\E h \in Handlers : pc[h] # "idle") \/ conn = "open" => phase = "serving")
    /\ [][(nturns' # nturns \/ conn' # conn) =>
             (phase = "serving" \/ RestartStep) /\ getDefaultProvider(providerMap) # Nil]_vars

(* startup found no provider: the process has stopped, nothing is served *)
C27_Witness ==
    /\ phase = "fatal" /\ getDefaultProvider(providerMap) = Nil
    /\ conn = "closed" /\ \A h \in Handlers : pc[h] = "idle"
(* C28: the registry is written at startup only: no step of the serving     *)
(* process (a chat turn, a socket turn, a models or sessions request, a     *)
(* producer) changes providerMap, so whatever reads it while the process    *)
(* serves reads the same entries.                                           *)
C28_RegistryReadOnlyAfterStartup ==
    [][providerMap' # providerMap => phase = "init" \/ RestartStep]_vars

(* the models of the registry's provider have been listed while a chat turn *)
(* was answered: the registry is as startup left it                         *)
C28_Witness ==
    /\ api.op = "models" /\ api.models = {ModelsResponse("ollama", TRUE, <<"llama3.2">>)}
    /\ \E h \in Handlers : TurnOver(h) /\ EndedByDone(h)
    /\ providerMap = initializeProviders(probe) /\ providerMap # {}
(* the upstream call of the turn did not get a successful response: the     *)
(* server was not reachable or answered with a status other than 200        *)
UpstreamRefused(h) ==
    \/ outcome[h] = "callerror" /\ history[h] # <<>>
    \/ /\ Streamed(h) /\ StreamOf(h).kind = "wrapper" /\ StreamOf(h).closed
       /\ StreamOf(h).messages # <<>>
       /\ StreamOf(h).answer \in UpErrors \cup UpRefusals

(* the error texts the adapters build for such a call *)
RefusalTexts ==
    {"failed to send request: " \o up.err : up \in UpErrors}
    \cup {"ollama returned status " \o ToString(up.status) \o ": " \o up.content :
             up \in UpRefusals}

(* C29: after a turn whose upstream was unreachable or answered with a      *)
(* non-success status, the frames of the turn are exactly one frame, a      *)
(* well-formed error frame without content whose text is the adapter's      *)
(* error (for a non-success status: the status code and the body), and the  *)
(* turn has appended no assistant message to the session.                   *)
C29_UpstreamFailureOneErrorFrame ==
    \A h \in Handlers :
        (TurnOver(h) /\ TransportWorked(h) /\ UpstreamRefused(h)) =>
            /\ Len(frames[h]) = 1
            /\ frames[h][1].content = "" /\ ~frames[h][1].done
            /\ frames[h][1].error \in RefusalTexts
            /\ ~frames[h][1].malformed
            /\ Streamed(h) /\ StreamOf(h).answer \in UpRefusals =>
                  frames[h][1].error = "ollama returned status 500: oops"
            /\ \A i \in 1..Len(SessionOf(h)) :
                  SessionOf(h)[i].turn = tid[h] => SessionOf(h)[i].role # "assistant"
(* a chunk, or a frame, that is neither a content delta, nor the done       *)
(* marker, nor an error                                                     *)
EmptyDelta(content, done, error) == content = "" /\ ~done /\ error = Nil

(* C30: no chunk with empty Content, Done false and no Error has been sent  *)
(* on the channel of any adapter stream, and no frame with empty content,   *)
(* done false and no error has been written to a client.                    *)
C30_ContentDeltasNonEmpty ==
    /\ \A t \in DOMAIN streams : \A i \in 1..Len(streams[t].log) :
          LET c == streams[t].log[i] IN ~EmptyDelta(c.Content, c.Done, c.Error)
    /\ \A h \in Handlers : \A i \in 1..Len(frames[h]) :
          LET f == frames[h][i] IN ~EmptyDelta(f.content, f.done, f.error)
(* the model the turn asks for: req.Model, the default model when empty *)
ModelWanted(h) == IF req[h].model = "" THEN DefaultOllamaModel ELSE req[h].model

(* C31: the upstream request of every turn's stream names the model         *)
(* requested in the turn when that is non-empty, and the adapter's default  *)
(* model otherwise, whichever adapter serves the turn.                      *)
C31_RequestedModelSent ==
    \A h \in Handlers : Streamed(h) => StreamOf(h).model = ModelWanted(h)
(* the turn the handler is serving was issued by the web client, and the    *)
(* handler has written a done frame after a non-empty reply                 *)
WebTurnCompleted ==
    /\ Serving /\ TurnOver("http") /\ EndedByDone("http")
    /\ Undisturbed("http") /\ ConcatContent(frames["http"]) # ""

(* C32: a completed turn of the web client has added to the session         *)
(* history of the server exactly the new user message of the turn followed  *)
(* by one assistant message; nothing of an earlier turn is among what the   *)
(* turn appended.                                                           *)
C32_TurnAddsOnlyItsOwnMessages ==
    WebTurnCompleted =>
        Mine("http", SessionOf("http")) =
            <<Message("user", Last(req["http"].messages).content, tid["http"]),
              Message("assistant", ConcatContent(frames["http"]), tid["http"])>>
(* the client has read the whole response of a turn that the handler ended  *)
(* with a done frame, and its call chain has returned; the handler has not  *)
(* returned yet                                                             *)
WebTurnRead ==
    /\ Serving /\ TurnOver("http") /\ EndedByDone("http")
    /\ client.pc = "ready" /\ client.ended = "returned"

(* C33: after a completed turn the web client has added exactly one         *)
(* assistant message to this.messages, whose content is the concatenation   *)
(* of the content it received.                                              *)
C33_OneAssistantMessagePerTurn ==
    WebTurnRead =>
        /\ client.pushed = 1
        /\ Last(client.messages) =
             [role |-> "assistant", content |-> ConcatContent(frames["http"])]
(* C34: the web client has at most one turn in flight: its call chain is    *)
(* running exactly while isStreaming is set, and no step taken while        *)
(* isStreaming is set starts a turn or changes the request in flight;       *)
(* every turn is followed by a state where isStreaming is false and         *)
(* abortController is null, however the turn ends; and in every such state  *)
(* sendMessage accepts a non-empty input.                                   *)
C34_OneTurnInFlight ==
    /\ [](client.isStreaming <=> client.pc # "ready")
    /\ [][client.isStreaming =>
            /\ client'.turns = client.turns
            /\ client'.request = client.request
            /\ client'.ticket = client.ticket]_vars
    /\ client.isStreaming ~> (~client.isStreaming /\ client.abortController = Null)
    /\ [](client.pc = "ready" =>
            /\ ~client.isStreaming /\ client.abortController = Null
            /\ ~Refused(client, "hi"))

(* a second turn has been accepted after a first one that failed, and a     *)
(* sendMessage call has been ignored meanwhile                              *)
C34_Witness ==
    /\ client.turns = 2 /\ client.isStreaming /\ client.abortController # Null
    /\ client.ignored
    /\ client.ticket = 2 /\ nfaults > 0
(* the call chain of a turn of the web client is over, the connection was   *)
(* not lost, and the client has parsed a data line with an error field      *)
WebTurnGotError ==
    /\ Serving /\ peer["http"] = "here"
    /\ client.pc = "ready" /\ client.gotError

(* C35: a turn in which the web client received an error frame has ended    *)
(* in the catch block of sendMessage, the page shows the error of the       *)
(* frame, and the turn has recorded no assistant message in this.messages.  *)
C35_ErrorFrameEndsTurnInErrorPath ==
    WebTurnGotError =>
        /\ client.ended = "caught"
        /\ client.shown = "Error: " \o Last(frames["http"]).error
        /\ client.pushed = 0
(* the ways a socket turn fails: provider not available, StreamChat call    *)
(* error, error chunk, frame write failure                                  *)
WsFailures == {"noprovider", "callerror", "error", "writefail"}

(* C36: a socket turn that failed leaves the connection open, and the       *)
(* handler's next position after any turn is conn.ReadJSON on the same      *)
(* connection; the connection is closed only from conn.ReadJSON (or with    *)
(* the whole process).                                                      *)
C36_FailedTurnKeepsConnection ==
    /\ [](TurnOver("ws") /\ outcome["ws"] \in WsFailures => conn = "open")
    /\ [][(pc["ws"] = "done" /\ pc'["ws"] # "done") =>
             (pc'["ws"] = "idle" /\ conn' = "open") \/ RestartStep]_vars
    /\ [][(conn = "open" /\ conn' # "open") => pc["ws"] = "idle" \/ RestartStep]_vars

(* a turn has failed because a frame could not be written, and the          *)
(* connection is open                                                       *)
C36_Witness == TurnOver("ws") /\ outcome["ws"] = "writefail" /\ conn = "open"
(* handleChat has answered the request without streaming: with              *)
(* `Method not allowed`, `Invalid request` or `Provider ... not available`  *)
ChatRejected == TurnOver("http") /\ outcome["http"] \in {"rejected", "noprovider"}

(* a step in which handleChat rejects the request it has just read *)
ChatRejectStep ==
    /\ pc["http"] = "idle" /\ pc'["http"] = "done"
    /\ outcome'["http"] \in {"rejected", "noprovider"}

(* a step of handleSessionDetail that answers with an error: the key is     *)
(* empty or the method is neither GET nor DELETE                            *)
DetailRejectStep == api'.n # api.n /\ api'.op = "detail"

(* the messages stored for any key, in memory or durably, that carry the    *)
(* number of the turn of handler h                                          *)
StoredBy(h) ==
    {m \in UNION ({{d[k][i] : i \in 1..Len(d[k])} : k \in DOMAIN mem, d \in {mem}}
                  \cup {{d[k][i] : i \in 1..Len(d[k])} : k \in DOMAIN disk, d \in {disk}}) :
        m.turn = tid[h]}

(* C37: a chat request that handleChat rejects before streaming changes no  *)
(* session, in memory or on disk, in the step that rejects it, has stored   *)
(* no message when the turn is over, and has no frame written for it; a     *)
(* session-detail request with an empty key or an unsupported method        *)
(* changes no session.                                                      *)
C37_RejectedRequestsChangeNothing ==
    /\ [](ChatRejected =>
            /\ frames["http"] = <<>>
            /\ resp["http"].status \in
                 {StatusMethodNotAllowed, StatusBadRequest}
            /\ StoredBy("http") = {})
    /\ [][ChatRejectStep => mem' = mem /\ disk' = disk /\ updated' = updated]_vars
    /\ [][DetailRejectStep =>
             /\ api'.status \in {StatusBadRequest, StatusMethodNotAllowed}
             /\ mem' = mem /\ disk' = disk /\ updated' = updated]_vars

(* a request that names an unregistered provider has been rejected while a  *)
(* session is stored in memory and on disk                                  *)
C37_Witness ==
    /\ ChatRejected /\ outcome["http"] = "noprovider"
    /\ mem # <<>> /\ disk # <<>>
(* C38: on every stream of ProviderWrapper.StreamChat at most one chunk is  *)
(* ever sent and the channel never holds more than its capacity of one; the *)
(* goroutine has exited exactly when the channel is closed, and that is     *)
(* exactly when its one chunk has been sent; it is never blocked in its     *)
(* send: as long as it runs, its step (the upstream call returning, the     *)
(* send, the close) can be taken whatever the consumer does.                *)
C38_WrapperProducerTerminates ==
    \A t \in DOMAIN streams :
        streams[t].kind = "wrapper" =>
            /\ Len(streams[t].log) <= 1
            /\ Len(streams[t].chan) <= WrapperChanCap
            /\ streams[t].held = <<>>
            /\ streams[t].closed <=> streams[t].prod = "exit"
            /\ streams[t].closed <=> Len(streams[t].log) = 1
            /\ streams[t].prod = "run" =>
                 ENABLED (\E up \in UpChats : WrapperProduce(t, up))

(* the goroutine has sent its chunk, closed the channel and exited while    *)
(* the chunk is still in the channel: the consumer has not read it          *)
C38_Witness ==
    \E t \in DOMAIN streams :
        /\ streams[t].kind = "wrapper" /\ streams[t].prod = "exit" /\ streams[t].closed
        /\ Len(streams[t].chan) = 1 /\ streams[t].log = streams[t].chan
====
